---- MODULE Spec2Model ----
(***************************************************************************)
(* libsbn: the generalized-pruning subsplit DAG (GPDAG), the operation     *)
(* streams its scheduler emits, and the GPEngine that executes them.       *)
(*                                                                         *)
(* Bitsets are modelled by what they denote: a clade is a set of taxa, a   *)
(* subsplit is a pair <<chunk0, chunk1>> of clades, and the bitset order   *)
(* (taxon 0 is the most significant bit) is the order of BitVal.           *)
(***************************************************************************)
EXTENDS Integers, Sequences, FiniteSets, TLC

\* Number of taxa of the tree collection the DAG is built from.
TaxonCount == 4

Taxa == 0 .. (TaxonCount - 1)

----------------------------------------------------------------------------
\* Generic helpers.

RECURSIVE Pow(_, _)
Pow(b, e) == IF e = 0 THEN 1 ELSE b * Pow(b, e - 1)

RECURSIVE SumOver(_, _)
\* Sum of f[x] over the finite set S.
SumOver(f, S) ==
  IF S = {} THEN 0
  ELSE LET x == CHOOSE y \in S : TRUE IN f[x] + SumOver(f, S \ {x})

\* TLC passes operator arguments unevaluated.  The loops below thread their
\* state through the iterations; Strict(st) is TRUE and makes TLC evaluate the
\* state of one iteration before the next one begins, as the code does.
Strict(st) == st = st

SeqToSet(s) == { s[i] : i \in 1 .. Len(s) }

\* Positions (1-based) at which x occurs in the sequence s.
PositionsOf(s, x) == { i \in 1 .. Len(s) : s[i] = x }

----------------------------------------------------------------------------
\* Bitset algebra.

\* The value of a clade read as a bit string with taxon 0 leftmost.
BitVal(c) == SumOver([i \in Taxa |-> Pow(2, TaxonCount - 1 - i)], c)

\* Order of subsplit bitsets (2 * TaxonCount bits).
SubsplitVal(s) == BitVal(s[1]) * Pow(2, TaxonCount) + BitVal(s[2])

RotateSubsplit(s) == <<s[2], s[1]>>

\* rootsplit + ~rootsplit
RootSubsplit(r) == <<r, Taxa \ r>>

\* The smaller of the two halves a and b in the bitset order.
MinClade(a, b) == IF BitVal(a) < BitVal(b) THEN a ELSE b

\* Bitset::ChildSubsplit(parent, child): child is the smaller half of the
\* focal (second) chunk of parent; the result is the sorted child subsplit.
ChildSubsplit(parent, child) == <<child, parent[2] \ child>>

\* zero + fake: the fake subsplit of a leaf.
FakeSubsplit(i) == <<{}, {i}>>

----------------------------------------------------------------------------
\* Rooted bifurcating topologies.  A topology is the set of the clades of its
\* internal nodes (the root clade Taxa included).

RECURSIVE TreesOn(_)
TreesOn(S) ==
  IF Cardinality(S) = 1 THEN {{}}
  ELSE LET m == CHOOSE x \in S : \A y \in S : x <= y
           halves == { A \in SUBSET S : m \in A /\ A # S }
       IN UNION { { {S} \cup t1 \cup t2 : t1 \in TreesOn(A), t2 \in TreesOn(S \ A) }
                  : A \in halves }

Topologies == TreesOn(Taxa)

\* The clades of the two children of the node with clade c in topology t.
ChildClades(t, c) ==
  LET below == { d \in t \cup { {i} : i \in c } : d \subseteq c /\ d # c }
  IN { d \in below : \A e \in below : ~(d \subseteq e /\ d # e) }

\* The clade of the sibling of the non-root node with clade d in topology t.
SisterClade(t, d) ==
  LET p == CHOOSE c \in t : d \in ChildClades(t, c) IN p \ d

\* The smaller child clade of the node with clade c.
Child0(t, c) ==
  LET ch == ChildClades(t, c)
      a == CHOOSE x \in ch : TRUE
      b == CHOOSE x \in ch : x # a
  IN MinClade(a, b)

\* RootedSBNMaps::RootsplitCounterOf: the rootsplits (as clades) of the
\* topologies of the collection.
RootsplitCounterOf(tc) == { Child0(t, Taxa) : t \in tc }

\* RootedSBNMaps::PCSSCounterOf: parent subsplit (sister | focal) to the set of
\* observed children (the smaller half of the focal clade).
PCSSParents(tc) ==
  { <<SisterClade(t, d), d>> : <<t, d>> \in { <<t, d>> \in tc \X (SUBSET Taxa) : d \in t /\ d # Taxa } }

PCSSCounterOf(tc) ==
  [ parent \in PCSSParents(tc) |->
      { Child0(t, parent[2]) :
          t \in { u \in tc : parent[2] \in u /\ parent[2] # Taxa
                            /\ SisterClade(u, parent[2]) = parent[1] } } ]

----------------------------------------------------------------------------
\* Iteration order of the unordered maps.  The order is unspecified; the model
\* explores the ascending and the descending bitset order.

HashOrders == {"asc", "desc"}

RECURSIVE SortBy(_, _)
\* The elements of S as a sequence ascending in key (a function on S).
SortBy(S, key) ==
  IF S = {} THEN <<>>
  ELSE LET x == CHOOSE y \in S : \A z \in S : key[y] <= key[z]
       IN <<x>> \o SortBy(S \ {x}, key)

Reverse(s) == [ i \in 1 .. Len(s) |-> s[Len(s) + 1 - i] ]

Iterate(S, key, order) ==
  IF order = "asc" THEN SortBy(S, key) ELSE Reverse(SortBy(S, key))

IterateClades(S, order) == Iterate(S, [c \in S |-> BitVal(c)], order)

IterateSubsplits(S, order) == Iterate(S, [s \in S |-> SubsplitVal(s)], order)

----------------------------------------------------------------------------
\* State.

VARIABLES
  tree_collection,     \* the topologies of the RootedTreeCollection
  hash_order,          \* iteration order of the unordered counters
  pc,                  \* position in the GPDAG constructor / "ready"
  failed,              \* a SafeInsert or Failwith threw
  rootsplits_, indexer_, parent_to_range_, index_to_child_, gpcsp_count_,
  subsplit_to_index_, dag_nodes_, pcsp_indexer_, subsplit2range_,
  rootward_order_, leafward_order_

dagVars == <<tree_collection, hash_order, rootsplits_, indexer_, parent_to_range_,
             index_to_child_, gpcsp_count_, subsplit_to_index_, dag_nodes_,
             pcsp_indexer_, subsplit2range_, rootward_order_, leafward_order_>>

taxon_count_ == TaxonCount

\* std::unordered_map::operator[] on a size_t map: a missing key reads as 0.
Lookup(m, k) == IF k \in DOMAIN m THEN m[k] ELSE 0

\* SafeInsert throws when the key is already present.
SafeInsertOk(m, k) == k \notin DOMAIN m
SafeInsert(m, k, v) == (k :> v) @@ m

----------------------------------------------------------------------------
\* GPDAG::ProcessTrees.

RECURSIVE ProcessRootsplits(_, _, _)
ProcessRootsplits(iter, i, st) ==
  IF Strict(st) /\ i > Len(iter) THEN st
  ELSE ProcessRootsplits(iter, i + 1,
         [st EXCEPT !.ok = @ /\ SafeInsertOk(st.indexer_, <<iter[i]>>),
                    !.indexer_ = SafeInsert(@, <<iter[i]>>, st.index),
                    !.rootsplits_ = Append(@, iter[i]),
                    !.index = @ + 1])

RECURSIVE ProcessChildCounter(_, _, _, _)
ProcessChildCounter(parent, children, j, st) ==
  IF Strict(st) /\ j > Len(children) THEN st
  ELSE LET child == children[j]
           key == <<parent[1], parent[2], child>>
       IN ProcessChildCounter(parent, children, j + 1,
            [st EXCEPT !.ok = @ /\ SafeInsertOk(st.indexer_, key)
                                /\ SafeInsertOk(st.index_to_child_, st.index),
                       !.indexer_ = SafeInsert(@, key, st.index),
                       !.index_to_child_ =
                           SafeInsert(@, st.index, ChildSubsplit(parent, child)),
                       !.index = @ + 1])

RECURSIVE ProcessPCSSs(_, _, _, _, _)
ProcessPCSSs(counter, parents, k, order, st) ==
  IF Strict(st) /\ k > Len(parents) THEN st
  ELSE LET parent == parents[k]
           child_counter == counter[parent]
           s1 == [st EXCEPT
                    !.ok = @ /\ SafeInsertOk(st.parent_to_range_, parent),
                    !.parent_to_range_ =
                        SafeInsert(@, parent,
                                   <<st.index, st.index + Cardinality(child_counter)>>)]
       IN ProcessPCSSs(counter, parents, k + 1, order,
            ProcessChildCounter(parent, IterateClades(child_counter, order), 1, s1))

ProcessTreesResult(tc, order) ==
  LET st0 == [index |-> 0, indexer_ |-> <<>>, rootsplits_ |-> <<>>,
              parent_to_range_ |-> <<>>, index_to_child_ |-> <<>>, ok |-> TRUE]
      st1 == ProcessRootsplits(IterateClades(RootsplitCounterOf(tc), order), 1, st0)
      counter == PCSSCounterOf(tc)
  IN ProcessPCSSs(counter, IterateSubsplits(DOMAIN counter, order), 1, order, st1)

----------------------------------------------------------------------------
\* DAG nodes (GPDAGNode).

NewNode(id, subsplit) ==
  [id |-> id, bitset |-> subsplit,
   leafward_sorted |-> <<>>, leafward_rotated |-> <<>>,
   rootward_sorted |-> <<>>, rootward_rotated |-> <<>>]

\* dag_nodes_[id] (ids are 0-based).
NodeAt(nodes, id) == nodes[id + 1]

IsLeaf(node) == Len(node.leafward_sorted) = 0 /\ Len(node.leafward_rotated) = 0
IsRoot(node) == Len(node.rootward_sorted) = 0 /\ Len(node.rootward_rotated) = 0

\* GPDAG::CreateAndInsertNode.
CreateAndInsertNode(st, subsplit) ==
  IF subsplit \in DOMAIN st.subsplit_to_index_ THEN st
  ELSE LET id == Len(st.dag_nodes_)
       IN [st EXCEPT !.subsplit_to_index_ = (subsplit :> id) @@ @,
                     !.dag_nodes_ = Append(@, NewNode(id, subsplit))]

\* GPDAG::GetChildrenSubsplits.
GetChildrenSubsplits(subsplit, include_fake_subsplits) ==
  IF subsplit \in DOMAIN parent_to_range_
  THEN LET range == parent_to_range_[subsplit]
       IN [ k \in 1 .. (range[2] - range[1]) |-> index_to_child_[range[1] + k - 1] ]
  ELSE IF include_fake_subsplits /\ subsplit[1] # {} /\ Cardinality(subsplit[2]) = 1
       THEN << <<{}, subsplit[2]>> >>
       ELSE <<>>

\* GPDAG::BuildNodesDepthFirst.
RECURSIVE BuildNodesDepthFirst(_, _), BuildNodesChildren(_, _, _)
BuildNodesDepthFirst(subsplit, st) ==
  IF subsplit \in st.visited_subsplits THEN st
  ELSE LET s0 == [st EXCEPT !.visited_subsplits = @ \cup {subsplit}]
           s1 == BuildNodesChildren(GetChildrenSubsplits(subsplit, FALSE), 1, s0)
           s2 == BuildNodesChildren(
                   GetChildrenSubsplits(RotateSubsplit(subsplit), FALSE), 1, s1)
       IN CreateAndInsertNode(s2, subsplit)

BuildNodesChildren(children, i, st) ==
  IF Strict(st) /\ i > Len(children) THEN st
  ELSE BuildNodesChildren(children, i + 1, BuildNodesDepthFirst(children[i], st))

RECURSIVE BuildFakeNodes(_, _)
BuildFakeNodes(i, st) ==
  IF Strict(st) /\ i >= taxon_count_ THEN st
  ELSE BuildFakeNodes(i + 1, CreateAndInsertNode(st, FakeSubsplit(i)))

RECURSIVE BuildRootNodes(_, _)
BuildRootNodes(i, st) ==
  IF Strict(st) /\ i > Len(rootsplits_) THEN st
  ELSE BuildRootNodes(i + 1, BuildNodesDepthFirst(RootSubsplit(rootsplits_[i]), st))

\* GPDAG::BuildNodes.
BuildNodesResult ==
  BuildRootNodes(1,
    BuildFakeNodes(0, [subsplit_to_index_ |-> <<>>, dag_nodes_ |-> <<>>,
                       visited_subsplits |-> {}]))

\* GPDAG::ConnectNodes.
RECURSIVE ConnectChildren(_, _, _, _, _)
ConnectChildren(nodes, idx, rotated, children, k) ==
  IF Strict(nodes) /\ k > Len(children) THEN nodes
  ELSE LET child_id == Lookup(subsplit_to_index_, children[k])
           n1 == IF rotated
                 THEN [nodes EXCEPT ![idx + 1].leafward_rotated = Append(@, child_id)]
                 ELSE [nodes EXCEPT ![idx + 1].leafward_sorted = Append(@, child_id)]
           n2 == IF rotated
                 THEN [n1 EXCEPT ![child_id + 1].rootward_rotated = Append(@, idx)]
                 ELSE [n1 EXCEPT ![child_id + 1].rootward_sorted = Append(@, idx)]
       IN ConnectChildren(n2, idx, rotated, children, k + 1)

ConnectNodes(nodes, idx, rotated) ==
  LET node == NodeAt(nodes, idx)
      subsplit == IF rotated THEN RotateSubsplit(node.bitset) ELSE node.bitset
  IN ConnectChildren(nodes, idx, rotated, GetChildrenSubsplits(subsplit, TRUE), 1)

\* GPDAG::BuildEdges.
RECURSIVE BuildEdgesFrom(_, _)
BuildEdgesFrom(nodes, i) ==
  IF Strict(nodes) /\ i >= Len(nodes) THEN nodes
  ELSE BuildEdgesFrom(ConnectNodes(ConnectNodes(nodes, i, FALSE), i, TRUE), i + 1)

BuildEdgesResult == BuildEdgesFrom(dag_nodes_, taxon_count_)

----------------------------------------------------------------------------
\* GPDAG::BuildPCSPIndexer.

PCSPKey(parent_subsplit, child_subsplit) ==
  <<parent_subsplit[1], parent_subsplit[2], child_subsplit[1], child_subsplit[2]>>

RECURSIVE IndexRootsplits(_, _)
IndexRootsplits(i, st) ==
  IF Strict(st) /\ i > Len(rootsplits_) THEN st
  ELSE LET key == RootSubsplit(rootsplits_[i])
       IN IndexRootsplits(i + 1,
            [st EXCEPT !.ok = @ /\ SafeInsertOk(st.pcsp_indexer_, key),
                       !.pcsp_indexer_ = SafeInsert(@, key, st.idx),
                       !.idx = @ + 1])

RECURSIVE IndexChildren(_, _, _, _)
\* The inner loop over the children of one clade side of a node.
IndexChildren(parent_subsplit, children, j, st) ==
  IF Strict(st) /\ j > Len(children) THEN st
  ELSE LET child == NodeAt(dag_nodes_, children[j])
           key == PCSPKey(parent_subsplit, child.bitset)
       IN IndexChildren(parent_subsplit, children, j + 1,
            [st EXCEPT !.ok = @ /\ SafeInsertOk(st.pcsp_indexer_, key),
                       !.pcsp_indexer_ = SafeInsert(@, key, st.idx),
                       !.idx = @ + 1])

\* IndexSide with the range end one short.
IndexSideShortRange(parent_subsplit, children, st) ==
  LET n_child == Len(children)
  IN IF n_child > 0
     THEN IndexChildren(parent_subsplit, children, 1,
            [st EXCEPT !.ok = @ /\ SafeInsertOk(st.subsplit2range_, parent_subsplit),
                       !.subsplit2range_ =
                           SafeInsert(@, parent_subsplit,
                                      <<st.idx, st.idx + n_child - 1>>)])
     ELSE st

IndexSide(parent_subsplit, children, st) ==
  LET n_child == Len(children)
  IN IF n_child > 0
     THEN IndexChildren(parent_subsplit, children, 1,
            [st EXCEPT !.ok = @ /\ SafeInsertOk(st.subsplit2range_, parent_subsplit),
                       !.subsplit2range_ =
                           SafeInsert(@, parent_subsplit, <<st.idx, st.idx + n_child>>)])
     ELSE st

RECURSIVE IndexNodes(_, _)
IndexNodes(i, st) ==
  IF Strict(st) /\ i >= Len(dag_nodes_) THEN st
  ELSE LET node == NodeAt(dag_nodes_, i)
           s1 == IndexSide(node.bitset, node.leafward_sorted, st)
           s2 == IndexSide(RotateSubsplit(node.bitset), node.leafward_rotated, s1)
       IN IndexNodes(i + 1, s2)

BuildPCSPIndexerResult ==
  IndexNodes(taxon_count_,
    IndexRootsplits(1, [idx |-> 0, pcsp_indexer_ |-> <<>>,
                        subsplit2range_ |-> <<>>, ok |-> TRUE]))

----------------------------------------------------------------------------
\* Traversals.

\* RootwardDepthFirst (free function).
RECURSIVE RootwardDepthFirst(_, _), RootwardDepthFirstOver(_, _, _)
\* RootwardDepthFirst recording the node before its parents (pre-order).
RootwardDepthFirstPreOrder(id, st) ==
  LET s0 == [st EXCEPT !.visited_nodes = @ \cup {id},
                       !.visit_order = Append(@, id)]
      s1 == RootwardDepthFirstOver(NodeAt(dag_nodes_, id).rootward_sorted, 1, s0)
  IN RootwardDepthFirstOver(NodeAt(dag_nodes_, id).rootward_rotated, 1, s1)

RootwardDepthFirst(id, st) ==
  LET s0 == [st EXCEPT !.visited_nodes = @ \cup {id}]
      s1 == RootwardDepthFirstOver(NodeAt(dag_nodes_, id).rootward_sorted, 1, s0)
      s2 == RootwardDepthFirstOver(NodeAt(dag_nodes_, id).rootward_rotated, 1, s1)
  IN [s2 EXCEPT !.visit_order = Append(@, id)]

RootwardDepthFirstOver(ids, k, st) ==
  IF Strict(st) /\ k > Len(ids) THEN st
  ELSE RootwardDepthFirstOver(ids, k + 1,
         IF ids[k] \notin st.visited_nodes THEN RootwardDepthFirst(ids[k], st) ELSE st)

\* LeafwardDepthFirst (free function).
RECURSIVE LeafwardDepthFirst(_, _), LeafwardDepthFirstOver(_, _, _)
\* LeafwardDepthFirst recording the node before its children (pre-order).
LeafwardDepthFirstPreOrder(id, st) ==
  LET s0 == [st EXCEPT !.visited_nodes = @ \cup {id},
                       !.visit_order = Append(@, id)]
      s1 == LeafwardDepthFirstOver(NodeAt(dag_nodes_, id).leafward_sorted, 1, s0)
  IN LeafwardDepthFirstOver(NodeAt(dag_nodes_, id).leafward_rotated, 1, s1)

LeafwardDepthFirst(id, st) ==
  LET s0 == [st EXCEPT !.visited_nodes = @ \cup {id}]
      s1 == LeafwardDepthFirstOver(NodeAt(dag_nodes_, id).leafward_sorted, 1, s0)
      s2 == LeafwardDepthFirstOver(NodeAt(dag_nodes_, id).leafward_rotated, 1, s1)
  IN [s2 EXCEPT !.visit_order = Append(@, id)]

LeafwardDepthFirstOver(ids, k, st) ==
  IF Strict(st) /\ k > Len(ids) THEN st
  ELSE LeafwardDepthFirstOver(ids, k + 1,
         IF ids[k] \notin st.visited_nodes THEN LeafwardDepthFirst(ids[k], st) ELSE st)

\* The node id of the i-th rootsplit: subsplit_to_index_[rootsplit + ~rootsplit].
RootId(i) == Lookup(subsplit_to_index_, RootSubsplit(rootsplits_[i]))

RECURSIVE LeafwardPassFromLeaves(_, _)
LeafwardPassFromLeaves(leaf_idx, st) ==
  IF Strict(st) /\ leaf_idx >= taxon_count_ THEN st
  ELSE LeafwardPassFromLeaves(leaf_idx + 1, RootwardDepthFirst(leaf_idx, st))

\* GPDAG::LeafwardPassTraversal.
LeafwardPassTraversal ==
  LeafwardPassFromLeaves(0, [visit_order |-> <<>>, visited_nodes |-> {}]).visit_order

RECURSIVE RootwardPassFromRoots(_, _)
RootwardPassFromRoots(i, st) ==
  IF Strict(st) /\ i > Len(rootsplits_) THEN st
  ELSE RootwardPassFromRoots(i + 1, LeafwardDepthFirst(RootId(i), st))

\* GPDAG::RootwardPassTraversal.
RootwardPassTraversal ==
  RootwardPassFromRoots(1, [visit_order |-> <<>>, visited_nodes |-> {}]).visit_order

\* GPDAG::NodeCount, GPDAG::GPCSPCount, GPDAG::ContinuousParameterCount.
NodeCount == Len(dag_nodes_)
GPCSPCount == gpcsp_count_
\* ContinuousParameterCount counting only the sorted parents of each leaf.
ContinuousParameterCountSortedOnly ==
  GPCSPCount
  + SumOver([i \in 0 .. (taxon_count_ - 1) |->
               Len(NodeAt(dag_nodes_, i).rootward_sorted)], 0 .. (taxon_count_ - 1))

ContinuousParameterCount ==
  GPCSPCount
  + SumOver([i \in 0 .. (taxon_count_ - 1) |->
               Len(NodeAt(dag_nodes_, i).rootward_rotated)
               + Len(NodeAt(dag_nodes_, i).rootward_sorted)],
            0 .. (taxon_count_ - 1))

----------------------------------------------------------------------------
\* Operations (GPOperations) and the PLV arena addressing.

PLVTypes == <<"P", "P_HAT", "P_HAT_TILDE", "R_HAT", "R", "R_TILDE">>

\* GPInstance::plv_count_per_node_.
plv_count_per_node_ == 6

\* GetPLVIndex with R_TILDE laid out in the stride of R.
GetPLVIndexSharedStride(plv_type, node_count, src_idx) ==
  CASE plv_type = "P" -> src_idx
    [] plv_type = "P_HAT" -> node_count + src_idx
    [] plv_type = "P_HAT_TILDE" -> 2 * node_count + src_idx
    [] plv_type = "R_HAT" -> 3 * node_count + src_idx
    [] plv_type = "R" -> 4 * node_count + src_idx
    [] plv_type = "R_TILDE" -> 4 * node_count + src_idx
    [] OTHER -> -1

\* GetPLVIndex (free function).  An unknown type is Failwith, modelled as -1.
GetPLVIndex(plv_type, node_count, src_idx) ==
  CASE plv_type = "P" -> src_idx
    [] plv_type = "P_HAT" -> node_count + src_idx
    [] plv_type = "P_HAT_TILDE" -> 2 * node_count + src_idx
    [] plv_type = "R_HAT" -> 3 * node_count + src_idx
    [] plv_type = "R" -> 4 * node_count + src_idx
    [] plv_type = "R_TILDE" -> 5 * node_count + src_idx
    [] OTHER -> -1

PLV(plv_type, id) == GetPLVIndex(plv_type, Len(dag_nodes_), id)

Zero(dest) == [op |-> "Zero", dest_ |-> dest]
SetToStationaryDistribution(dest) == [op |-> "SetToStationaryDistribution", dest_ |-> dest]
WeightedSumAccumulate(dest, gpcsp, src) ==
  [op |-> "WeightedSumAccumulate", dest_ |-> dest, gpcsp_ |-> gpcsp, src_ |-> src]
Multiply(dest, src1, src2) ==
  [op |-> "Multiply", dest_ |-> dest, src1_ |-> src1, src2_ |-> src2]
Likelihood(dest, parent, child) ==
  [op |-> "Likelihood", dest_ |-> dest, parent_ |-> parent, child_ |-> child]
OptimizeBranchLength(leafward, rootward, gpcsp) ==
  [op |-> "OptimizeBranchLength", leafward_ |-> leafward, rootward_ |-> rootward,
   gpcsp_ |-> gpcsp]
UpdateSBNProbabilities(start, stop) ==
  [op |-> "UpdateSBNProbabilities", start_ |-> start, stop_ |-> stop]
MarginalLikelihood(stationary, rootsplit, p) ==
  [op |-> "MarginalLikelihood", stationary_ |-> stationary, rootsplit_ |-> rootsplit,
   p_ |-> p]
Failwith(msg) == [op |-> "Failwith", msg_ |-> msg]

\* GPDAG::GetPCSPIndex: pcsp_indexer_[parent (rotated) + child].
GetPCSPIndex(parent_node_idx, child_node_idx, rotated) ==
  LET parent_node == NodeAt(dag_nodes_, parent_node_idx)
      child_node == NodeAt(dag_nodes_, child_node_idx)
      parent_subsplit == IF rotated THEN RotateSubsplit(parent_node.bitset)
                         ELSE parent_node.bitset
  IN Lookup(pcsp_indexer_, PCSPKey(parent_subsplit, child_node.bitset))

\* GPDAG::AddRootwardWeightedSumAccumulateOperations.
AddRootwardWeightedSumAccumulateOperations(node, rotated, operations) ==
  LET child_idxs == IF rotated THEN node.leafward_rotated ELSE node.leafward_sorted
      plv_type == IF rotated THEN "P_HAT_TILDE" ELSE "P_HAT"
      parent_subsplit == IF rotated THEN RotateSubsplit(node.bitset) ELSE node.bitset
  IN operations \o
     [ k \in 1 .. Len(child_idxs) |->
         IF PCSPKey(parent_subsplit, NodeAt(dag_nodes_, child_idxs[k]).bitset)
              \notin DOMAIN pcsp_indexer_
         THEN Failwith("Non-existent PCSP index.")
         ELSE WeightedSumAccumulate(PLV(plv_type, node.id),
                                    GetPCSPIndex(node.id, child_idxs[k], rotated),
                                    PLV("P", child_idxs[k])) ]

\* The leafward accumulates reading R(t) for the edges of both sides.
AddLeafwardWeightedSumAccumulateOperationsSortedVector(node, operations) ==
  operations
  \o [ k \in 1 .. Len(node.rootward_sorted) |->
         WeightedSumAccumulate(PLV("R_HAT", node.id),
                               GetPCSPIndex(node.rootward_sorted[k], node.id, FALSE),
                               PLV("R", node.rootward_sorted[k])) ]
  \o [ k \in 1 .. Len(node.rootward_rotated) |->
         WeightedSumAccumulate(PLV("R_HAT", node.id),
                               GetPCSPIndex(node.rootward_rotated[k], node.id, TRUE),
                               PLV("R", node.rootward_rotated[k])) ]

\* GPDAG::AddLeafwardWeightedSumAccumulateOperations.
AddLeafwardWeightedSumAccumulateOperations(node, operations) ==
  operations
  \o [ k \in 1 .. Len(node.rootward_sorted) |->
         WeightedSumAccumulate(PLV("R_HAT", node.id),
                               GetPCSPIndex(node.rootward_sorted[k], node.id, FALSE),
                               PLV("R", node.rootward_sorted[k])) ]
  \o [ k \in 1 .. Len(node.rootward_rotated) |->
         WeightedSumAccumulate(PLV("R_HAT", node.id),
                               GetPCSPIndex(node.rootward_rotated[k], node.id, TRUE),
                               PLV("R_TILDE", node.rootward_rotated[k])) ]

\* GPDAG::OptimizeSBNParameters.
OptimizeSBNParameters(subsplit, operations) ==
  IF subsplit \in DOMAIN subsplit2range_
     /\ subsplit2range_[subsplit][2] - subsplit2range_[subsplit][1] > 1
  THEN Append(operations, UpdateSBNProbabilities(subsplit2range_[subsplit][1],
                                                 subsplit2range_[subsplit][2]))
  ELSE operations

\* GPDAG::RootwardPass(visit_order).
RECURSIVE RootwardPassOver(_, _, _)
RootwardPassOver(visit_order, k, operations) ==
  IF Strict(operations) /\ k > Len(visit_order) THEN operations
  ELSE LET node_idx == visit_order[k]
           node == NodeAt(dag_nodes_, node_idx)
       IN IF IsLeaf(node) THEN RootwardPassOver(visit_order, k + 1, operations)
          ELSE RootwardPassOver(visit_order, k + 1,
                 Append(AddRootwardWeightedSumAccumulateOperations(node, TRUE,
                          AddRootwardWeightedSumAccumulateOperations(node, FALSE,
                                                                     operations)),
                        Multiply(node_idx, PLV("P_HAT", node_idx),
                                 PLV("P_HAT_TILDE", node_idx))))

\* RootwardPass handed the leafward order.
RootwardPassInLeafwardOrder == RootwardPassOver(leafward_order_, 1, <<>>)

RootwardPass == RootwardPassOver(rootward_order_, 1, <<>>)

\* GPDAG::LeafwardPass(visit_order).
RECURSIVE LeafwardPassOver(_, _, _)
LeafwardPassOver(visit_order, k, operations) ==
  IF Strict(operations) /\ k > Len(visit_order) THEN operations
  ELSE LET node_idx == visit_order[k]
           node == NodeAt(dag_nodes_, node_idx)
       IN LeafwardPassOver(visit_order, k + 1,
            AddLeafwardWeightedSumAccumulateOperations(node, operations)
            \o << Multiply(PLV("R", node_idx), PLV("R_HAT", node_idx),
                           PLV("P_HAT_TILDE", node_idx)),
                  Multiply(PLV("R_TILDE", node_idx), PLV("R_HAT", node_idx),
                           PLV("P_HAT", node_idx)) >>)

\* LeafwardPass with the Multiply for R(s) writing R_HAT(s) instead.
LeafwardPassProductIntoRHat ==
  LET ops == LeafwardPassOver(leafward_order_, 1, <<>>)
      node_count == Len(dag_nodes_)
  IN [ k \in 1 .. Len(ops) |->
         IF ops[k].op = "Multiply" /\ ops[k].dest_ \div node_count = 4
         THEN [ops[k] EXCEPT !.dest_ = @ - node_count]
         ELSE ops[k] ]

LeafwardPass == LeafwardPassOver(leafward_order_, 1, <<>>)

RECURSIVE SetRootwardZeroFrom(_, _)
SetRootwardZeroFrom(i, operations) ==
  IF Strict(operations) /\ i >= Len(dag_nodes_) THEN operations
  ELSE SetRootwardZeroFrom(i + 1,
         operations \o << Zero(PLV("P", i)), Zero(PLV("P_HAT", i)),
                          Zero(PLV("P_HAT_TILDE", i)) >>)

\* SetRootwardZero starting at node 0, the leaves included.
SetRootwardZeroFromLeaves == SetRootwardZeroFrom(0, <<>>)

\* GPDAG::SetRootwardZero.
SetRootwardZero == SetRootwardZeroFrom(taxon_count_, <<>>)

RECURSIVE SetLeafwardZeroFrom(_, _)
SetLeafwardZeroFrom(i, operations) ==
  IF Strict(operations) /\ i >= Len(dag_nodes_) THEN operations
  ELSE SetLeafwardZeroFrom(i + 1,
         operations \o << Zero(PLV("R_HAT", i)), Zero(PLV("R", i)),
                          Zero(PLV("R_TILDE", i)) >>)

\* GPDAG::SetLeafwardZero.
SetLeafwardZero ==
  SetLeafwardZeroFrom(0, <<>>)
  \o [ i \in 1 .. Len(rootsplits_) |->
         SetToStationaryDistribution(PLV("R_HAT", RootId(i))) ]

----------------------------------------------------------------------------
\* Depth-first schedules.

\* The prologue shared by the two depth-first schedules: recompute R_HAT(s)
\* from the r-vectors of the parents, then r(s) and r_tilde(s).
UpdateRHatOperations(node) ==
  << Zero(PLV("R_HAT", node.id)) >>
  \o [ k \in 1 .. Len(node.rootward_sorted) |->
         WeightedSumAccumulate(PLV("R_HAT", node.id),
                               GetPCSPIndex(node.rootward_sorted[k], node.id, FALSE),
                               PLV("R", node.rootward_sorted[k])) ]
  \o [ k \in 1 .. Len(node.rootward_rotated) |->
         WeightedSumAccumulate(PLV("R_HAT", node.id),
                               GetPCSPIndex(node.rootward_rotated[k], node.id, TRUE),
                               PLV("R_TILDE", node.rootward_rotated[k])) ]
  \o << Multiply(PLV("R", node.id), PLV("R_HAT", node.id), PLV("P_HAT_TILDE", node.id)),
        Multiply(PLV("R_TILDE", node.id), PLV("R_HAT", node.id), PLV("P_HAT", node.id)) >>

\* The branch-length schedule without the accumulate that follows the
\* optimisation of an edge.
BranchLengthEdgeOperationsNoAccumulate(node, child_id, rotated) ==
  << OptimizeBranchLength(PLV("P", child_id),
                          PLV(IF rotated THEN "R_TILDE" ELSE "R", node.id),
                          GetPCSPIndex(node.id, child_id, rotated)) >>

\* The two ops the branch-length schedule emits for the edge (node, child_id).
BranchLengthEdgeOperations(node, child_id, rotated) ==
  LET pcsp_idx == GetPCSPIndex(node.id, child_id, rotated)
  IN << OptimizeBranchLength(PLV("P", child_id),
                             PLV(IF rotated THEN "R_TILDE" ELSE "R", node.id),
                             pcsp_idx),
        WeightedSumAccumulate(PLV(IF rotated THEN "P_HAT_TILDE" ELSE "P_HAT", node.id),
                              pcsp_idx, PLV("P", child_id)) >>

\* GPDAG::ScheduleBranchLengthOptimization.
RECURSIVE ScheduleBranchLengthOptimization(_, _), ScheduleBranchLengthChildren(_, _, _, _, _)
ScheduleBranchLengthOptimization(node_id, st) ==
  LET node == NodeAt(dag_nodes_, node_id)
      s0 == [st EXCEPT !.visited_nodes = @ \cup {node_id}]
      s1 == IF ~IsRoot(node)
            THEN [s0 EXCEPT !.operations = @ \o UpdateRHatOperations(node)]
            ELSE s0
  IN IF IsLeaf(node) THEN s1
     ELSE LET s2 == [s1 EXCEPT !.operations = Append(@, Zero(PLV("P_HAT", node_id)))]
              s3 == ScheduleBranchLengthChildren(node, FALSE, node.leafward_sorted, 1, s2)
              s4 == [s3 EXCEPT !.operations = @ \o
                       << Multiply(PLV("R_TILDE", node_id), PLV("R_HAT", node_id),
                                   PLV("P_HAT", node_id)),
                          Zero(PLV("P_HAT_TILDE", node_id)) >>]
              s5 == ScheduleBranchLengthChildren(node, TRUE, node.leafward_rotated, 1, s4)
          IN [s5 EXCEPT !.operations = @ \o
                << Multiply(PLV("R", node_id), PLV("R_HAT", node_id),
                            PLV("P_HAT_TILDE", node_id)),
                   Multiply(PLV("P", node_id), PLV("P_HAT", node_id),
                            PLV("P_HAT_TILDE", node_id)) >>]

ScheduleBranchLengthChildren(node, rotated, children, k, st) ==
  IF Strict(st) /\ k > Len(children) THEN st
  ELSE LET child_id == children[k]
           s1 == IF child_id \notin st.visited_nodes
                 THEN ScheduleBranchLengthOptimization(child_id, st)
                 ELSE st
       IN ScheduleBranchLengthChildren(node, rotated, children, k + 1,
            [s1 EXCEPT !.operations = @ \o BranchLengthEdgeOperations(node, child_id, rotated)])

RECURSIVE BranchLengthOptimizationFrom(_, _)
BranchLengthOptimizationFrom(i, st) ==
  IF Strict(st) /\ i > Len(rootsplits_) THEN st
  ELSE BranchLengthOptimizationFrom(i + 1, ScheduleBranchLengthOptimization(RootId(i), st))

\* GPDAG::BranchLengthOptimization.
BranchLengthOptimization ==
  BranchLengthOptimizationFrom(1, [visited_nodes |-> {}, operations |-> <<>>]).operations

\* The two ops the SBN-parameter schedule emits for the edge (node, child_id).
SBNEdgeOperations(node, child_id, rotated) ==
  LET pcsp_idx == GetPCSPIndex(node.id, child_id, rotated)
  IN << WeightedSumAccumulate(PLV(IF rotated THEN "P_HAT_TILDE" ELSE "P_HAT", node.id),
                              pcsp_idx, PLV("P", child_id)),
        Likelihood(pcsp_idx, PLV(IF rotated THEN "R_TILDE" ELSE "R", node.id),
                   PLV("P", child_id)) >>

\* GPDAG::ScheduleSBNParametersOptimization.
RECURSIVE ScheduleSBNParametersOptimization(_, _), ScheduleSBNChildren(_, _, _, _, _)
ScheduleSBNParametersOptimization(node_id, st) ==
  LET node == NodeAt(dag_nodes_, node_id)
      s0 == [st EXCEPT !.visited_nodes = @ \cup {node_id}]
      s1 == IF ~IsRoot(node)
            THEN [s0 EXCEPT !.operations = @ \o UpdateRHatOperations(node)]
            ELSE s0
  IN IF IsLeaf(node) THEN s1
     ELSE LET s2 == [s1 EXCEPT !.operations = Append(@, Zero(PLV("P_HAT", node_id)))]
              s3 == ScheduleSBNChildren(node, FALSE, node.leafward_sorted, 1, s2)
              s4 == [s3 EXCEPT !.operations =
                       OptimizeSBNParameters(node.bitset, @) \o
                       << Multiply(PLV("R_TILDE", node_id), PLV("R_HAT", node_id),
                                   PLV("P_HAT", node_id)),
                          Zero(PLV("P_HAT_TILDE", node_id)) >>]
              s5 == ScheduleSBNChildren(node, TRUE, node.leafward_rotated, 1, s4)
          IN [s5 EXCEPT !.operations =
                OptimizeSBNParameters(RotateSubsplit(node.bitset), @) \o
                << Multiply(PLV("R", node_id), PLV("R_HAT", node_id),
                            PLV("P_HAT_TILDE", node_id)),
                   Multiply(PLV("P", node_id), PLV("P_HAT", node_id),
                            PLV("P_HAT_TILDE", node_id)) >>]

ScheduleSBNChildren(node, rotated, children, k, st) ==
  IF Strict(st) /\ k > Len(children) THEN st
  ELSE LET child_id == children[k]
           s1 == IF child_id \notin st.visited_nodes
                 THEN ScheduleSBNParametersOptimization(child_id, st)
                 ELSE st
       IN ScheduleSBNChildren(node, rotated, children, k + 1,
            [s1 EXCEPT !.operations = @ \o SBNEdgeOperations(node, child_id, rotated)])

RECURSIVE SBNParameterOptimizationFrom(_, _)
SBNParameterOptimizationFrom(i, st) ==
  IF Strict(st) /\ i > Len(rootsplits_) THEN st
  ELSE LET s1 == ScheduleSBNParametersOptimization(RootId(i), st)
       IN SBNParameterOptimizationFrom(i + 1,
            [s1 EXCEPT !.operations =
               Append(@, MarginalLikelihood(PLV("R_HAT", RootId(i)), i - 1,
                                            PLV("P", RootId(i))))])

\* SBNParameterOptimization with the rootsplit update emitted before the
\* per-rootsplit schedules.
SBNParameterOptimizationRootUpdateFirst ==
  << UpdateSBNProbabilities(0, Len(rootsplits_)) >>
  \o SBNParameterOptimizationFrom(1, [visited_nodes |-> {},
                                      operations |-> <<>>]).operations

\* GPDAG::SBNParameterOptimization.
SBNParameterOptimization ==
  Append(SBNParameterOptimizationFrom(1, [visited_nodes |-> {},
                                          operations |-> <<>>]).operations,
         UpdateSBNProbabilities(0, Len(rootsplits_)))

RECURSIVE ComputeLikelihoodsFrom(_, _)
ComputeLikelihoodsFrom(i, operations) ==
  IF Strict(operations) /\ i >= Len(dag_nodes_) THEN operations
  ELSE LET node == NodeAt(dag_nodes_, i)
       IN ComputeLikelihoodsFrom(i + 1,
            operations
            \o [ k \in 1 .. Len(node.leafward_sorted) |->
                   Likelihood(GetPCSPIndex(i, node.leafward_sorted[k], FALSE),
                              PLV("R", node.id), PLV("P", node.leafward_sorted[k])) ]
            \o [ k \in 1 .. Len(node.leafward_rotated) |->
                   Likelihood(GetPCSPIndex(i, node.leafward_rotated[k], TRUE),
                              PLV("R_TILDE", node.id), PLV("P", node.leafward_rotated[k])) ])

\* GPDAG::ComputeLikelihoods.
ComputeLikelihoods ==
  ComputeLikelihoodsFrom(taxon_count_, <<>>)
  \o [ i \in 1 .. Len(rootsplits_) |->
         MarginalLikelihood(PLV("R_HAT", RootId(i)), i - 1, PLV("P", RootId(i))) ]

----------------------------------------------------------------------------
\* Exact arithmetic for the engine's doubles: a number is a reduced fraction
\* <<n, d>> with d > 0; NaN (also standing for a value that was never
\* initialised) is <<0, 0>>.

RECURSIVE GCD(_, _)
GCD(a, b) == IF b = 0 THEN a ELSE GCD(b, a % b)

NaN == <<0, 0>>
IsNum(x) == x[2] # 0

Rat(n, d) ==
  IF d = 0 THEN NaN
  ELSE LET g == GCD(IF n < 0 THEN -n ELSE n, d) IN <<n \div g, d \div g>>

Abs(n) == IF n < 0 THEN -n ELSE n

RInt(n) == <<n, 1>>
\* Products and sums cancel common factors first, so that the intermediate
\* integers stay small.
RMul(a, b) ==
  IF IsNum(a) /\ IsNum(b)
  THEN LET g1 == GCD(Abs(a[1]), b[2])
           g2 == GCD(Abs(b[1]), a[2])
       IN Rat((a[1] \div g1) * (b[1] \div g2), (a[2] \div g2) * (b[2] \div g1))
  ELSE NaN
RAdd(a, b) ==
  IF IsNum(a) /\ IsNum(b)
  THEN LET g == GCD(a[2], b[2])
       IN Rat(a[1] * (b[2] \div g) + b[1] * (a[2] \div g), (a[2] \div g) * b[2])
  ELSE NaN
RDiv(a, b) ==
  IF IsNum(a) /\ IsNum(b) /\ b[1] > 0 THEN RMul(a, <<b[2], b[1]>>) ELSE NaN
RLess(a, b) ==
  /\ IsNum(a) /\ IsNum(b)
  /\ LET g == GCD(a[2], b[2])
     IN a[1] * (b[2] \div g) < b[1] * (a[2] \div g)
RPos(a) == IsNum(a) /\ a[1] > 0

RECURSIVE RSum(_, _, _)
\* Sum of v[i] for i in lo .. hi - 1.
RSum(v, lo, hi) == IF lo >= hi THEN RInt(0) ELSE RAdd(v[lo], RSum(v, lo + 1, hi))

----------------------------------------------------------------------------
\* The engine as the scheduler's streams see it: the parameter vectors q_ and
\* log_likelihoods_, indexed by gpcsp.  log_likelihoods_ holds exp of the
\* stored double, so that normalisation is exact.

VARIABLES
  operations,          \* the stream last returned by a scheduler phase
  phase,               \* the phase that returned it
  pending,             \* the stream has not been processed yet
  processed,           \* number of streams the engine has processed
  data_seed,           \* the alignment, as far as the likelihood values go
  q_, log_likelihoods_

engineVars == <<data_seed, q_, log_likelihoods_>>
streamVars == <<operations, phase, pending, processed>>

\* Number of streams one engine processes.
MaxStreams == 2

DataSeeds == {0, 1}

\* What a vector entry that was resized and never written can hold.
UninitializedValues == {NaN, <<1, 2>>}

\* exp(per_pattern_log_likelihoods_ . site_pattern_weights_) for edge g: a
\* positive number fixed by the alignment.
PatternLikelihood(seed, g) == RInt(1 + ((g * seed) % 3))

\* GPEngine::operator()(Likelihood).
ExecLikelihood(e, op) ==
  [e EXCEPT !.log_likelihoods_[op.dest_] =
      RMul(e.q_[op.dest_], PatternLikelihood(e.data_seed, op.dest_))]

\* GPEngine::operator()(IncrementMarginalLikelihood).
ExecMarginalLikelihood(e, op) ==
  [e EXCEPT !.log_likelihoods_[op.rootsplit_] =
      RMul(e.q_[op.rootsplit_], PatternLikelihood(e.data_seed, op.rootsplit_))]

\* UpdateSBNProbabilities storing the weights without dividing by their sum.
ExecUpdateSBNProbabilitiesUnnormalized(e, op) ==
  LET in_range(i) == op.start_ <= i /\ i < op.stop_
  IN IF op.stop_ - op.start_ = 1
     THEN [e EXCEPT !.q_[op.start_] = RInt(1)]
     ELSE [e EXCEPT !.q_ = [ i \in DOMAIN e.q_ |->
                               IF in_range(i) THEN e.log_likelihoods_[i]
                               ELSE e.q_[i] ]]

\* GPEngine::operator()(UpdateSBNProbabilities).
ExecUpdateSBNProbabilities(e, op) ==
  LET range_length == op.stop_ - op.start_
      in_range(i) == op.start_ <= i /\ i < op.stop_
      norm == RSum(e.log_likelihoods_, op.start_, op.stop_)
      segment == [ i \in DOMAIN e.log_likelihoods_ |->
                     IF in_range(i) THEN RDiv(e.log_likelihoods_[i], norm)
                     ELSE e.log_likelihoods_[i] ]
  IN IF range_length = 1
     THEN [e EXCEPT !.q_[op.start_] = RInt(1)]
     ELSE [e EXCEPT !.log_likelihoods_ = segment,
                    !.q_ = [ i \in DOMAIN e.q_ |->
                               IF in_range(i) THEN segment[i] ELSE e.q_[i] ]]

\* std::visit(*this, operation).
ExecOperation(e, op) ==
  CASE op.op = "Likelihood" -> ExecLikelihood(e, op)
    [] op.op = "MarginalLikelihood" -> ExecMarginalLikelihood(e, op)
    [] op.op = "UpdateSBNProbabilities" -> ExecUpdateSBNProbabilities(e, op)
    [] OTHER -> e

RECURSIVE ProcessOperationsRange(_, _, _, _)
\* The loop of ProcessOperations over ops[lo .. hi], in order, from engine
\* state e (split in halves: the ops are still visited left to right).
ProcessOperationsRange(ops, lo, hi, e) ==
  IF Strict(e) /\ lo > hi THEN e
  ELSE IF lo = hi THEN ExecOperation(e, ops[lo])
  ELSE LET mid == (lo + hi) \div 2
       IN ProcessOperationsRange(ops, mid + 1, hi,
            ProcessOperationsRange(ops, lo, mid, e))

\* GPEngine::ProcessOperations.
ProcessOperationsResult(ops) ==
  ProcessOperationsRange(ops, 1, Len(ops),
    [data_seed |-> data_seed, q_ |-> q_, log_likelihoods_ |-> log_likelihoods_])

\* GPDAG::BuildUniformQ.
BuildUniformQ ==
  LET InRange(i) == { s \in DOMAIN subsplit2range_ :
                        subsplit2range_[s][1] <= i /\ i < subsplit2range_[s][2] }
  IN [ i \in 0 .. (ContinuousParameterCount - 1) |->
         IF InRange(i) # {}
         THEN LET r == subsplit2range_[CHOOSE s \in InRange(i) : TRUE]
              IN Rat(1, r[2] - r[1])
         ELSE IF i < Len(rootsplits_) THEN Rat(1, Len(rootsplits_))
         ELSE RInt(1) ]

----------------------------------------------------------------------------
\* The engine's PLV arithmetic.  A PLV is a BaseCount x PatternCount matrix of
\* exact rationals; the arena has plv_count_ slots, the first
\* EngineTaxonCount of which are the tips.

\* Number of PLV slots, of continuous parameters, of character states, of site
\* patterns and of tip sequences of the arithmetic engine.
EnginePLVCount == 3
EngineGPCSPCount == 1
BaseCount == 2
PatternCount == 1
EngineTaxonCount == 1

\* Number of ops one engine executes.
MaxOps == 3

VARIABLES
  rescaling_threshold_,    \* constructor parameter
  plvs_,                   \* slot -> matrix of stored entries
  plv_rescaling_counts_,   \* slot -> rescaling counter
  branch_lengths_,         \* gpcsp -> branch length
  true_plvs,               \* what an engine that never rescales holds
  last_op,                 \* the op executed last, with what the optimiser returned
  op_count,                \* number of ops executed
  thrown,                  \* an Assert of the engine failed
  site_pattern_,           \* taxon -> pattern -> symbol
  alignment_,              \* SitePattern: taxon number -> sequence of characters
  patterns_,               \* SitePattern: taxon number -> compressed sequence
  weights_,                \* SitePattern: pattern -> weight
  tree_collection_,        \* SBNInstance: topology -> count of the loaded trees
  topology_counter_,       \* SBNInstance: the counter ProcessLoadedTrees kept
  sbn_parameters_,         \* SBNInstance: index -> parameter
  load_count,              \* SBNInstance: number of tree files read so far
  stale_on_entry           \* history: the last ProcessLoadedTrees found indexer keys
                           \* of an earlier collection that the current one lacks

siteVars == <<alignment_, patterns_, weights_>>

sbnVars == <<tree_collection_, topology_counter_, sbn_parameters_, load_count,
             stale_on_entry>>

\* Two SubsplitDAGStorage objects: a host, and a graft constructed over it
\* with the HostDispatchTag.  Each HostableVector is its own data_; the
\* host_ pointers of the graft point at the host's two vectors.
VARIABLES
  vertices_,               \* host storage: vertices_.data_
  lines_,                  \* host storage: lines_.data_
  graft_vertices_,         \* graft storage: vertices_.data_
  graft_lines_,            \* graft storage: lines_.data_
  vertices_at_graft        \* history: the host's vertices when the graft was made

storageVars == <<vertices_, lines_, graft_vertices_, graft_lines_, vertices_at_graft>>

numericVars == <<rescaling_threshold_, plvs_, plv_rescaling_counts_, branch_lengths_,
                 true_plvs, last_op, op_count, thrown, site_pattern_, siteVars, sbnVars,
                 storageVars>>

\* Width in bits of the rescaling counters (int entries of
\* plv_rescaling_counts_), scaled down.
CounterBits == 3

CounterMin == -Pow(2, CounterBits - 1)
CounterMax == Pow(2, CounterBits - 1) - 1
FitsCounter(c) == CounterMin <= c /\ c <= CounterMax

\* The value an int holds after arithmetic whose result is c, when the
\* overflow wraps (two's complement).
WrapCount(c) == ((c - CounterMin) % Pow(2, CounterBits)) + CounterMin

PLVSlots == 0 .. (EnginePLVCount - 1)
PLVEntries == (1 .. BaseCount) \X (1 .. PatternCount)
EngineGPCSPs == 0 .. (EngineGPCSPCount - 1)

\* Thresholds the engine is constructed with.
RescalingThresholds == { <<1, 2>>, <<1, 4>> }
\* SBN parameter values installed before the ops run.
SBNParameterValues == { <<1, 2>> }
\* Branch lengths the one-dimensional optimiser can return.
BranchLengthGrid == { <<1, 3>>, <<1, 1>>, <<3, 1>> }

RECURSIVE RPow(_, _)
\* pow(x, n) for an integer n.
RPow(x, n) ==
  IF n = 0 THEN RInt(1)
  ELSE IF n > 0 THEN RMul(x, RPow(x, n - 1))
  ELSE RDiv(RInt(1), RPow(x, -n))

ZeroPLV == [ en \in PLVEntries |-> RInt(0) ]

\* The stationary distribution of the substitution model (uniform).
stationary_distribution_ == [ row \in 1 .. BaseCount |-> Rat(1, BaseCount) ]

\* GPEngine::SetTransitionMatrixToHaveBranchLength: the transition matrix of
\* a symmetric model.  The probability of a change, (1 - exp(-c t)) (n-1)/n in
\* the code's model, is replaced by the rational t / (t + 1) * (n-1)/n, which
\* like it grows from 0 with t and stays below (n-1)/n.
TransitionMatrix(branch_length) ==
  LET change == RMul(RDiv(branch_length, RAdd(branch_length, RInt(1))),
                     Rat(BaseCount - 1, BaseCount))
      stay == RAdd(RInt(1), RMul(RInt(-1), change))
  IN [ i \in 1 .. BaseCount |->
       [ j \in 1 .. BaseCount |->
           IF i = j THEN stay ELSE RMul(change, Rat(1, BaseCount - 1)) ] ]

RECURSIVE RSumSeq(_, _)
\* Sum of f[1] .. f[n].
RSumSeq(f, n) == IF n = 0 THEN RInt(0) ELSE RAdd(RSumSeq(f, n - 1), f[n])

\* transition_matrix_ * plv
MatrixTimesPLV(matrix, plv) ==
  [ en \in PLVEntries |->
      RSumSeq([ j \in 1 .. BaseCount |-> RMul(matrix[en[1]][j], plv[<<j, en[2]>>]) ],
              BaseCount) ]

\* plv.minCoeff()
MinCoeff(plv) ==
  CHOOSE x \in { plv[en] : en \in PLVEntries } :
    \A en \in PLVEntries : ~RLess(plv[en], x)

\* InitializePLVsWithSitePatterns leaving the column of a gap at zero.
InitializePLVsGapAsZero(patterns) ==
  [ slot \in PLVSlots |->
      IF slot < EngineTaxonCount
      THEN [ en \in PLVEntries |->
               IF patterns[slot + 1][en[2]] = en[1] - 1 THEN RInt(1) ELSE RInt(0) ]
      ELSE ZeroPLV ]

\* GPEngine::InitializePLVsWithSitePatterns: patterns[taxon][site] is a symbol
\* in 0 .. BaseCount, BaseCount being the gap.
InitializePLVsWithSitePatterns(patterns) ==
  [ slot \in PLVSlots |->
      IF slot < EngineTaxonCount
      THEN [ en \in PLVEntries |->
               LET symbol == patterns[slot + 1][en[2]]
               IN IF symbol = BaseCount \/ symbol = en[1] - 1 THEN RInt(1) ELSE RInt(0) ]
      ELSE ZeroPLV ]

SitePatterns == [ 1 .. EngineTaxonCount -> [ 1 .. PatternCount -> 0 .. BaseCount ] ]

PrepForMarginalization(dest, src_vector) ==
  [op |-> "PrepForMarginalization", dest_ |-> dest, src_vector_ |-> src_vector]

\* GPEngine::operator()(Zero).
OpZero(e, op) ==
  [e EXCEPT !.plvs_[op.dest_] = ZeroPLV,
            !.plv_rescaling_counts_[op.dest_] = 0]

\* GPEngine::operator()(SetToStationaryDistribution).
OpSetToStationaryDistribution(e, op) ==
  [e EXCEPT !.plvs_[op.dest_] = [ en \in PLVEntries |-> stationary_distribution_[en[1]] ],
            !.plv_rescaling_counts_[op.dest_] = 0]

\* GPEngine::operator()(IncrementWithWeightedEvolvedPLV).
OpIncrementWithWeightedEvolvedPLV(e, op) ==
  LET difference ==
        e.plv_rescaling_counts_[op.dest_] - e.plv_rescaling_counts_[op.src_]
      rescaling_difference == WrapCount(difference)
      rescaling_factor ==
        IF rescaling_difference = 0 THEN RInt(1)
        ELSE RPow(e.rescaling_threshold_, rescaling_difference)
      evolved == MatrixTimesPLV(TransitionMatrix(e.branch_lengths_[op.gpcsp_]),
                                e.plvs_[op.src_])
  IN IF ~FitsCounter(difference) /\ e.overflow_traps THEN [e EXCEPT !.ok = FALSE]
     ELSE IF ~(rescaling_difference <= 0) THEN [e EXCEPT !.ok = FALSE]
     ELSE [e EXCEPT !.plvs_[op.dest_] =
             [ en \in PLVEntries |->
                 RAdd(@[en], RMul(rescaling_factor,
                                  RMul(e.q_[op.gpcsp_], evolved[en]))) ]]

\* GPEngine::RescalePLV.
RescalePLV(e, plv_idx, rescaling_count) ==
  IF rescaling_count < 0 THEN [e EXCEPT !.ok = FALSE]
  ELSE IF rescaling_count = 0 THEN e
  ELSE IF ~FitsCounter(e.plv_rescaling_counts_[plv_idx] + rescaling_count)
          /\ e.overflow_traps
  THEN [e EXCEPT !.ok = FALSE]
  ELSE [e EXCEPT !.plvs_[plv_idx] =
                   [ en \in PLVEntries |->
                       RDiv(@[en], RPow(e.rescaling_threshold_, rescaling_count)) ],
                 !.plv_rescaling_counts_[plv_idx] = WrapCount(@ + rescaling_count)]

RECURSIVE RescalingCountFor(_, _)
\* The while loop of RescalePLVIfNeeded.
RescalingCountFor(min_entry, threshold) ==
  IF RLess(min_entry, threshold)
  THEN 1 + RescalingCountFor(RDiv(min_entry, threshold), threshold)
  ELSE 0

\* RescalePLVIfNeeded rescaling once at most.
RescalePLVOnceIfNeeded(e, plv_idx) ==
  LET min_entry == MinCoeff(e.plvs_[plv_idx])
  IN IF min_entry = RInt(0) THEN e
     ELSE RescalePLV(e, plv_idx,
                     IF RLess(min_entry, e.rescaling_threshold_) THEN 1 ELSE 0)

\* GPEngine::RescalePLVIfNeeded.
RescalePLVIfNeeded(e, plv_idx) ==
  LET min_entry == MinCoeff(e.plvs_[plv_idx])
  IN IF RLess(min_entry, RInt(0)) THEN [e EXCEPT !.ok = FALSE]
     ELSE IF min_entry = RInt(0) THEN e
     ELSE RescalePLV(e, plv_idx, RescalingCountFor(min_entry, e.rescaling_threshold_))

\* GPEngine::operator()(Multiply).
OpMultiply(e, op) ==
  LET sum == e.plv_rescaling_counts_[op.src1_] + e.plv_rescaling_counts_[op.src2_]
  IN IF ~FitsCounter(sum) /\ e.overflow_traps THEN [e EXCEPT !.ok = FALSE]
     ELSE RescalePLVIfNeeded(
            [e EXCEPT !.plvs_[op.dest_] =
                        [ en \in PLVEntries |->
                            RMul(e.plvs_[op.src1_][en], e.plvs_[op.src2_][en]) ],
                      !.plv_rescaling_counts_[op.dest_] = WrapCount(sum)],
            op.dest_)

\* PrepForMarginalization giving dest_ the count of the first source.
OpPrepForMarginalizationFirstCount(e, op) ==
  IF Len(op.src_vector_) = 0 THEN [e EXCEPT !.ok = FALSE]
  ELSE [e EXCEPT !.plvs_[op.dest_] = ZeroPLV,
                 !.plv_rescaling_counts_[op.dest_] =
                   e.plv_rescaling_counts_[op.src_vector_[1]]]

\* GPEngine::operator()(PrepForMarginalization).  The counts are gathered in a
\* SizeVector, so std::min_element compares them as unsigned values: a
\* negative count is above every count that is not negative.
OpPrepForMarginalization(e, op) ==
  IF Len(op.src_vector_) = 0 THEN [e EXCEPT !.ok = FALSE]
  ELSE LET src_rescaling_counts ==
             { e.plv_rescaling_counts_[op.src_vector_[idx]] :
                 idx \in 1 .. Len(op.src_vector_) }
           AsUnsigned(c) == IF c < 0 THEN c + Pow(2, CounterBits) ELSE c
           min_rescaling_count ==
             CHOOSE c \in src_rescaling_counts :
               \A d \in src_rescaling_counts : AsUnsigned(c) <= AsUnsigned(d)
       IN [e EXCEPT !.plvs_[op.dest_] = ZeroPLV,
                    !.plv_rescaling_counts_[op.dest_] = min_rescaling_count]

\* GPEngine::LogRescalingFor, as the factor exp(count * log(threshold)).
RescalingFor(e, plv_idx) == RPow(e.rescaling_threshold_, e.plv_rescaling_counts_[plv_idx])

RECURSIVE RProductSeq(_, _)
\* Product of f[1] .. f[n].
RProductSeq(f, n) == IF n = 0 THEN RInt(1) ELSE RMul(RProductSeq(f, n - 1), f[n])

\* exp of log(q_[gpcsp]) + per_pattern_log_likelihoods_ . site_pattern_weights_
\* after PreparePerPatternLogLikelihoods(parent, child) with the transition
\* matrix of branch_length; every pattern has weight 1.
EdgeLikelihood(e, parent, child, gpcsp, branch_length) ==
  LET evolved == MatrixTimesPLV(TransitionMatrix(branch_length), e.plvs_[child])
      per_pattern ==
        [ site \in 1 .. PatternCount |->
            RMul(RSumSeq([ i \in 1 .. BaseCount |->
                             RMul(e.plvs_[parent][<<i, site>>], evolved[<<i, site>>]) ],
                         BaseCount),
                 RMul(RescalingFor(e, parent), RescalingFor(e, child))) ]
  IN RMul(e.q_[gpcsp], RProductSeq(per_pattern, PatternCount))

\* a > b for the negative logarithms a and b of the likelihoods lik_a and lik_b.
NegLogGreater(lik_a, lik_b) == RLess(lik_a, lik_b)

\* The search interval handed to the optimiser.
min_branch_length_ == <<1, 2>>
max_branch_length_ == <<2, 1>>

OutOfRange(branch_length) ==
  RLess(branch_length, min_branch_length_) \/ RLess(max_branch_length_, branch_length)

\* Optimization::BrentMinimize: returns a branch length together with the value
\* of the objective there.  The grid holds lengths inside and outside
\* [min_branch_length_, max_branch_length_]: nothing in BrentOptimization
\* depends on the optimiser keeping to the interval.
BrentMinimize(e, op) ==
  { [branch_length |-> x,
     likelihood |-> EdgeLikelihood(e, op.rootward_, op.leafward_, op.gpcsp_, x)] :
      x \in BranchLengthGrid }

\* BrentOptimization storing the optimiser's branch length unconditionally.
BrentOptimizationAlwaysStore(e, op, brent) ==
  [e EXCEPT !.branch_lengths_[op.gpcsp_] = brent.branch_length]

\* GPEngine::BrentOptimization, brent being what BrentMinimize returned.
BrentOptimization(e, op, brent) ==
  LET current_branch_length == e.branch_lengths_[op.gpcsp_]
      current_value == EdgeLikelihood(e, op.rootward_, op.leafward_, op.gpcsp_,
                                      current_branch_length)
  IN IF NegLogGreater(brent.likelihood, current_value)
     THEN [e EXCEPT !.branch_lengths_[op.gpcsp_] = current_branch_length]
     ELSE [e EXCEPT !.branch_lengths_[op.gpcsp_] = brent.branch_length]

\* The same ops in an engine that never rescales: plvs maps each slot to its
\* value, every counter stays 0.
UnrescaledOp(plvs, e, op) ==
  CASE op.op = "Zero" -> [plvs EXCEPT ![op.dest_] = ZeroPLV]
    [] op.op = "SetToStationaryDistribution" ->
         [plvs EXCEPT ![op.dest_] =
            [ en \in PLVEntries |-> stationary_distribution_[en[1]] ]]
    [] op.op = "WeightedSumAccumulate" ->
         LET evolved == MatrixTimesPLV(TransitionMatrix(e.branch_lengths_[op.gpcsp_]),
                                       plvs[op.src_])
         IN [plvs EXCEPT ![op.dest_] =
               [ en \in PLVEntries |-> RAdd(@[en], RMul(e.q_[op.gpcsp_], evolved[en])) ]]
    [] op.op = "Multiply" ->
         [plvs EXCEPT ![op.dest_] =
            [ en \in PLVEntries |-> RMul(plvs[op.src1_][en], plvs[op.src2_][en]) ]]
    [] op.op = "PrepForMarginalization" -> [plvs EXCEPT ![op.dest_] = ZeroPLV]
    [] OTHER -> plvs

----------------------------------------------------------------------------
\* The GPDAG constructor, step by step, then the scheduler and the engine.

vars == <<dagVars, pc, failed, streamVars, engineVars, numericVars>>

\* The arithmetic engine is not part of the runs of Spec.
NoNumericEngine ==
  /\ rescaling_threshold_ = RInt(1) /\ plvs_ = <<>> /\ plv_rescaling_counts_ = <<>>
  /\ branch_lengths_ = <<>> /\ true_plvs = <<>> /\ last_op = [op |-> "none"]
  /\ op_count = 0 /\ thrown = FALSE /\ site_pattern_ = <<>>

\* No SitePattern is part of the run.
NoSitePattern == alignment_ = <<>> /\ patterns_ = <<>> /\ weights_ = <<>>

\* No SubsplitDAGStorage is part of the run.
NoStorage ==
  /\ vertices_ = <<>> /\ lines_ = <<>> /\ graft_vertices_ = <<>>
  /\ graft_lines_ = <<>> /\ vertices_at_graft = <<>>

\* No SBNInstance is part of the run.
NoSBNInstance ==
  /\ tree_collection_ = <<>> /\ topology_counter_ = <<>>
  /\ sbn_parameters_ = <<>> /\ load_count = 0 /\ stale_on_entry = FALSE

Collections == { {x[1], x[2]} : x \in Topologies \X Topologies }

Init ==
  /\ tree_collection \in Collections
  /\ hash_order \in HashOrders
  /\ pc = "ProcessTrees"
  /\ failed = FALSE
  /\ rootsplits_ = <<>> /\ indexer_ = <<>> /\ parent_to_range_ = <<>>
  /\ index_to_child_ = <<>> /\ gpcsp_count_ = 0
  /\ subsplit_to_index_ = <<>> /\ dag_nodes_ = <<>>
  /\ pcsp_indexer_ = <<>> /\ subsplit2range_ = <<>>
  /\ rootward_order_ = <<>> /\ leafward_order_ = <<>>
  /\ operations = <<>> /\ phase = "none" /\ pending = FALSE /\ processed = 0
  /\ data_seed = 0 /\ q_ = <<>> /\ log_likelihoods_ = <<>>
  /\ NoNumericEngine
  /\ NoSitePattern
  /\ NoSBNInstance
  /\ NoStorage

ProcessTrees ==
  /\ pc = "ProcessTrees"
  /\ LET r == ProcessTreesResult(tree_collection, hash_order)
     IN /\ rootsplits_' = r.rootsplits_
        /\ indexer_' = r.indexer_
        /\ parent_to_range_' = r.parent_to_range_
        /\ index_to_child_' = r.index_to_child_
        /\ gpcsp_count_' = r.index
        /\ failed' = ~r.ok
        /\ pc' = IF r.ok THEN "BuildNodes" ELSE "failed"
  /\ UNCHANGED <<tree_collection, hash_order, subsplit_to_index_, dag_nodes_,
                 pcsp_indexer_, subsplit2range_, rootward_order_, leafward_order_,
                 streamVars, engineVars, numericVars>>

BuildNodes ==
  /\ pc = "BuildNodes"
  /\ LET r == BuildNodesResult
     IN /\ subsplit_to_index_' = r.subsplit_to_index_
        /\ dag_nodes_' = r.dag_nodes_
  /\ pc' = "BuildEdges"
  /\ UNCHANGED <<tree_collection, hash_order, rootsplits_, indexer_, parent_to_range_,
                 index_to_child_, gpcsp_count_, pcsp_indexer_, subsplit2range_,
                 rootward_order_, leafward_order_, failed, streamVars, engineVars, numericVars>>

BuildEdges ==
  /\ pc = "BuildEdges"
  /\ dag_nodes_' = BuildEdgesResult
  /\ pc' = "BuildPCSPIndexer"
  /\ UNCHANGED <<tree_collection, hash_order, rootsplits_, indexer_, parent_to_range_,
                 index_to_child_, gpcsp_count_, subsplit_to_index_, pcsp_indexer_,
                 subsplit2range_, rootward_order_, leafward_order_, failed,
                 streamVars, engineVars, numericVars>>

BuildPCSPIndexer ==
  /\ pc = "BuildPCSPIndexer"
  /\ LET r == BuildPCSPIndexerResult
     IN /\ pcsp_indexer_' = r.pcsp_indexer_
        /\ subsplit2range_' = r.subsplit2range_
        /\ failed' = ~r.ok
        /\ pc' = IF r.ok THEN "RootwardPassTraversal" ELSE "failed"
  /\ UNCHANGED <<tree_collection, hash_order, rootsplits_, indexer_, parent_to_range_,
                 index_to_child_, gpcsp_count_, subsplit_to_index_, dag_nodes_,
                 rootward_order_, leafward_order_, streamVars, engineVars, numericVars>>

SetRootwardOrder ==
  /\ pc = "RootwardPassTraversal"
  /\ rootward_order_' = RootwardPassTraversal
  /\ pc' = "LeafwardPassTraversal"
  /\ UNCHANGED <<tree_collection, hash_order, rootsplits_, indexer_, parent_to_range_,
                 index_to_child_, gpcsp_count_, subsplit_to_index_, dag_nodes_,
                 pcsp_indexer_, subsplit2range_, leafward_order_, failed,
                 streamVars, engineVars, numericVars>>

SetLeafwardOrder ==
  /\ pc = "LeafwardPassTraversal"
  /\ leafward_order_' = LeafwardPassTraversal
  /\ pc' = "MakeEngine"
  /\ UNCHANGED <<tree_collection, hash_order, rootsplits_, indexer_, parent_to_range_,
                 index_to_child_, gpcsp_count_, subsplit_to_index_, dag_nodes_,
                 pcsp_indexer_, subsplit2range_, rootward_order_, failed,
                 streamVars, engineVars, numericVars>>

\* GPEngine::GPEngine: q_ and log_likelihoods_ are resized and left
\* uninitialised.  The parameter vectors have one entry per continuous
\* parameter of the DAG.
MakeEngine ==
  /\ pc = "MakeEngine"
  /\ data_seed' \in DataSeeds
  /\ \E junk \in UninitializedValues :
       /\ q_' = [ i \in 0 .. (ContinuousParameterCount - 1) |-> junk ]
       /\ log_likelihoods_' = [ i \in 0 .. (ContinuousParameterCount - 1) |-> junk ]
  /\ pc' = "ready"
  /\ UNCHANGED <<dagVars, failed, streamVars, numericVars>>

\* The caller installs the uniform SBN parameters of GPDAG::BuildUniformQ.
SetUniformQ ==
  /\ pc = "ready"
  /\ processed = 0 /\ ~pending
  /\ q_ # BuildUniformQ
  /\ q_' = BuildUniformQ
  /\ UNCHANGED <<dagVars, pc, failed, streamVars, data_seed, log_likelihoods_, numericVars>>

Phases == {"SetRootwardZero", "SetLeafwardZero", "RootwardPass", "LeafwardPass",
           "BranchLengthOptimization", "SBNParameterOptimization",
           "ComputeLikelihoods"}

StreamOf(ph) ==
  CASE ph = "SetRootwardZero" -> SetRootwardZero
    [] ph = "SetLeafwardZero" -> SetLeafwardZero
    [] ph = "RootwardPass" -> RootwardPass
    [] ph = "LeafwardPass" -> LeafwardPass
    [] ph = "BranchLengthOptimization" -> BranchLengthOptimization
    [] ph = "SBNParameterOptimization" -> SBNParameterOptimization
    [] ph = "ComputeLikelihoods" -> ComputeLikelihoods

\* The keys of the edges in the leafward and in the rootward adjacency lists
\* of the nodes ids: parent subsplit (rotated for a rotated edge) + child.
LeafwardEdgeKeys(ids) ==
  UNION { LET node == NodeAt(dag_nodes_, i)
          IN { PCSPKey(node.bitset, NodeAt(dag_nodes_, c).bitset)
                 : c \in SeqToSet(node.leafward_sorted) }
             \cup { PCSPKey(RotateSubsplit(node.bitset), NodeAt(dag_nodes_, c).bitset)
                      : c \in SeqToSet(node.leafward_rotated) }
          : i \in ids }

RootwardEdgeKeys(ids) ==
  UNION { LET node == NodeAt(dag_nodes_, i)
          IN { PCSPKey(NodeAt(dag_nodes_, p).bitset, node.bitset)
                 : p \in SeqToSet(node.rootward_sorted) }
             \cup { PCSPKey(RotateSubsplit(NodeAt(dag_nodes_, p).bitset), node.bitset)
                      : p \in SeqToSet(node.rootward_rotated) }
          : i \in ids }

AllNodeIds == 0 .. (Len(dag_nodes_) - 1)

\* The keys a phase looks up with pcsp_indexer_[key].  RootwardPass tests
\* count(key) first; the depth-first schedules visit every node.
PCSPLookups(ph) ==
  CASE ph = "LeafwardPass" -> RootwardEdgeKeys(SeqToSet(leafward_order_))
    [] ph \in {"BranchLengthOptimization", "SBNParameterOptimization"} ->
         RootwardEdgeKeys(AllNodeIds) \cup LeafwardEdgeKeys(AllNodeIds)
    [] ph = "ComputeLikelihoods" ->
         LeafwardEdgeKeys(taxon_count_ .. (Len(dag_nodes_) - 1))
    [] OTHER -> {}

\* The keys a phase looks up with subsplit_to_index_[key].
SubsplitLookups(ph) ==
  IF ph \in {"SetLeafwardZero", "BranchLengthOptimization",
             "SBNParameterOptimization", "ComputeLikelihoods"}
  THEN { RootSubsplit(rootsplits_[i]) : i \in 1 .. Len(rootsplits_) }
  ELSE {}

\* The map after m[k] has been evaluated for every k of keys, as the variant
\* that forgets every key not looked up.
AfterLookupsOnlyTouched(m, keys) == [ k \in keys |-> Lookup(m, k) ]

\* std::unordered_map::operator[]: the map after m[k] has been evaluated for
\* every k of keys; a missing key is inserted with value 0.
AfterLookups(m, keys) == [ k \in DOMAIN m \cup keys |-> Lookup(m, k) ]

\* A scheduler phase is called and returns its stream.
Schedule(ph) ==
  /\ pc = "ready"
  /\ ~pending /\ processed < MaxStreams
  /\ operations' = StreamOf(ph)
  /\ phase' = ph
  /\ pending' = TRUE
  /\ pcsp_indexer_' = AfterLookups(pcsp_indexer_, PCSPLookups(ph))
  /\ subsplit_to_index_' = AfterLookups(subsplit_to_index_, SubsplitLookups(ph))
  /\ UNCHANGED <<tree_collection, hash_order, rootsplits_, indexer_, parent_to_range_,
                 index_to_child_, gpcsp_count_, dag_nodes_, subsplit2range_,
                 rootward_order_, leafward_order_,
                 pc, failed, processed, engineVars, numericVars>>

\* The engine processes the stream just returned.
ProcessOperations ==
  /\ pc = "ready"
  /\ pending
  /\ LET e == ProcessOperationsResult(operations)
     IN /\ q_' = e.q_
        /\ log_likelihoods_' = e.log_likelihoods_
  /\ pending' = FALSE
  /\ processed' = processed + 1
  /\ UNCHANGED <<dagVars, pc, failed, operations, phase, data_seed, numericVars>>

Next ==
  \/ ProcessTrees
  \/ BuildNodes
  \/ BuildEdges
  \/ BuildPCSPIndexer
  \/ SetRootwardOrder
  \/ SetLeafwardOrder
  \/ MakeEngine
  \/ SetUniformQ
  \/ \E ph \in Phases : Schedule(ph)
  \/ ProcessOperations

Spec == Init /\ [][Next]_vars

----------------------------------------------------------------------------
\* The arithmetic engine on its own: constructed over a site pattern, then
\* executing ops one at a time.

InitEngine ==
  /\ tree_collection = {} /\ hash_order = "asc"
  /\ pc = "engine" /\ failed = FALSE
  /\ rootsplits_ = <<>> /\ indexer_ = <<>> /\ parent_to_range_ = <<>>
  /\ index_to_child_ = <<>> /\ gpcsp_count_ = 0
  /\ subsplit_to_index_ = <<>> /\ dag_nodes_ = <<>>
  /\ pcsp_indexer_ = <<>> /\ subsplit2range_ = <<>>
  /\ rootward_order_ = <<>> /\ leafward_order_ = <<>>
  /\ operations = <<>> /\ phase = "none" /\ pending = FALSE /\ processed = 0
  /\ data_seed = 0
  /\ log_likelihoods_ = [ g \in EngineGPCSPs |-> NaN ]
  /\ \E qv \in SBNParameterValues : q_ = [ g \in EngineGPCSPs |-> qv ]
  /\ rescaling_threshold_ \in RescalingThresholds
  /\ NoSitePattern
  /\ NoSBNInstance
  /\ NoStorage
  /\ site_pattern_ \in SitePatterns
  /\ plvs_ = InitializePLVsWithSitePatterns(site_pattern_)
  /\ true_plvs = InitializePLVsWithSitePatterns(site_pattern_)
  /\ plv_rescaling_counts_ = [ slot \in PLVSlots |-> 0 ]
  /\ branch_lengths_ = [ g \in EngineGPCSPs |-> RInt(1) ]
  /\ last_op = [op |-> "none"]
  /\ op_count = 0
  /\ thrown = FALSE

EngineState ==
  [rescaling_threshold_ |-> rescaling_threshold_, plvs_ |-> plvs_,
   plv_rescaling_counts_ |-> plv_rescaling_counts_,
   branch_lengths_ |-> branch_lengths_, q_ |-> q_, ok |-> TRUE,
   overflow_traps |-> FALSE]

\* Signed overflow of an int is undefined: the build either wraps the value or
\* traps.  The engine state with that outcome chosen.
EngineStateWith(traps) == [EngineState EXCEPT !.overflow_traps = traps]

\* The engine executes op and arrives at e; a failed Assert throws and leaves
\* the engine as it was.
Arrives(op, e) ==
  /\ op_count' = op_count + 1
  /\ last_op' = op
  /\ thrown' = ~e.ok
  /\ plvs_' = IF e.ok THEN e.plvs_ ELSE plvs_
  /\ plv_rescaling_counts_' = IF e.ok THEN e.plv_rescaling_counts_
                              ELSE plv_rescaling_counts_
  /\ branch_lengths_' = IF e.ok THEN e.branch_lengths_ ELSE branch_lengths_
  /\ true_plvs' = IF e.ok THEN UnrescaledOp(true_plvs, EngineState, op) ELSE true_plvs
  /\ UNCHANGED <<dagVars, pc, failed, streamVars, engineVars, rescaling_threshold_,
                 site_pattern_, siteVars, sbnVars, storageVars>>

\* The engine executes ops until it throws.
Running == pc = "engine" /\ ~thrown /\ op_count < MaxOps

Executes(op, after) == \E e \in {after} : Arrives(op, e)

\* The slots ops write: the tips hold the data.
WorkSlots == { slot \in PLVSlots : slot >= EngineTaxonCount }

ExecZero ==
  Running /\
  \E dest \in WorkSlots :
    Executes(Zero(dest), OpZero(EngineState, Zero(dest)))

ExecSetToStationaryDistribution ==
  Running /\
  \E dest \in WorkSlots :
    Executes(SetToStationaryDistribution(dest),
             OpSetToStationaryDistribution(EngineState,
                                           SetToStationaryDistribution(dest)))

ExecIncrementWithWeightedEvolvedPLV ==
  Running /\
  \E dest \in WorkSlots : \E src \in PLVSlots : \E gpcsp \in EngineGPCSPs :
  \E traps \in BOOLEAN :
    Executes(WeightedSumAccumulate(dest, gpcsp, src),
             OpIncrementWithWeightedEvolvedPLV(EngineStateWith(traps),
                                               WeightedSumAccumulate(dest, gpcsp, src)))

ExecMultiply ==
  Running /\
  \E dest \in WorkSlots : \E src1 \in PLVSlots : \E src2 \in PLVSlots :
  \E traps \in BOOLEAN :
    Executes(Multiply(dest, src1, src2),
             OpMultiply(EngineStateWith(traps), Multiply(dest, src1, src2)))

ExecPrepForMarginalization ==
  Running /\
  \E dest \in WorkSlots : \E src1 \in PLVSlots : \E src2 \in src1 .. (EnginePLVCount - 1) :
    Executes(PrepForMarginalization(dest, <<src1, src2>>),
             OpPrepForMarginalization(EngineState,
                                      PrepForMarginalization(dest, <<src1, src2>>)))

ExecOptimizeBranchLength ==
  Running /\
  \E leafward \in PLVSlots : \E rootward \in WorkSlots : \E gpcsp \in EngineGPCSPs :
    LET op == OptimizeBranchLength(leafward, rootward, gpcsp)
    IN \E brent \in BrentMinimize(EngineState, op) :
         Executes([op EXCEPT !.op = "OptimizeBranchLength"] @@ [brent_ |-> brent],
                  BrentOptimization(EngineState, op, brent))

NextEngine ==
  \/ ExecZero
  \/ ExecSetToStationaryDistribution
  \/ ExecIncrementWithWeightedEvolvedPLV
  \/ ExecMultiply
  \/ ExecPrepForMarginalization
  \/ ExecOptimizeBranchLength

SpecEngine == InitEngine /\ [][NextEngine]_vars

----------------------------------------------------------------------------
\* The engine executing a longer sequence of SetToStationaryDistribution and
\* Multiply ops, the ops that build up the rescaling counters.

MaxChainOps == 4

ChainRunning == pc = "engine" /\ ~thrown /\ op_count < MaxChainOps

ChainSetToStationaryDistribution ==
  ChainRunning /\
  \E dest \in WorkSlots :
    Executes(SetToStationaryDistribution(dest),
             OpSetToStationaryDistribution(EngineState,
                                           SetToStationaryDistribution(dest)))

ChainMultiply ==
  ChainRunning /\
  \E dest \in WorkSlots : \E src1 \in PLVSlots : \E src2 \in PLVSlots :
  \E traps \in BOOLEAN :
    Executes(Multiply(dest, src1, src2),
             OpMultiply(EngineStateWith(traps), Multiply(dest, src1, src2)))

NextRescaling ==
  \/ ChainSetToStationaryDistribution
  \/ ChainMultiply

SpecRescaling == InitEngine /\ [][NextRescaling]_vars

----------------------------------------------------------------------------
\* SitePattern::Compress: the alignment is turned into site patterns with
\* weights.  Taxon numbers are 1 .. SequenceCount here (0-based in the code);
\* alignment_[t] is the sequence that alignment_.at(tag_taxon_map_ entry of
\* taxon number t) returns.

SequenceCount == 2
MaxSites == 3

\* The characters the alignments are drawn from: upper and lower case bases,
\* the gap, and one character the symbol table does not hold.
SiteChars == {"A", "a", "C", "-", "N"}

GetSymbolTable ==
  ("A" :> 0) @@ ("C" :> 1) @@ ("G" :> 2) @@ ("T" :> 3) @@
  ("a" :> 0) @@ ("c" :> 1) @@ ("g" :> 2) @@ ("t" :> 3) @@ ("-" :> 4)

\* Alignments whose sequences all have the same length.
Alignments ==
  UNION { [ 1 .. SequenceCount -> [ 1 .. n -> SiteChars ] ] : n \in 0 .. MaxSites }

AlignmentLength(alignment) == Len(alignment[1])

\* The inner loop of Compress: the pattern of site i.
PatternAt(alignment, i) ==
  [ taxon_number \in 1 .. SequenceCount |-> GetSymbolTable[alignment[taxon_number][i]] ]

\* symbol_table.at throws on a character that is not in the table.
SymbolTableThrows(alignment) ==
  \E i \in 1 .. AlignmentLength(alignment), taxon_number \in 1 .. SequenceCount :
    alignment[taxon_number][i] \notin DOMAIN GetSymbolTable

RECURSIVE BuildPatternsInsertOnly(_, _, _)
\* As BuildPatterns, but a pattern seen again is not counted again.
BuildPatternsInsertOnly(alignment, i, patterns) ==
  IF ~Strict(patterns) \/ i > AlignmentLength(alignment) THEN patterns
  ELSE LET pattern == PatternAt(alignment, i)
       IN BuildPatternsInsertOnly(alignment, i + 1,
            IF pattern \notin DOMAIN patterns THEN patterns @@ (pattern :> 1)
            ELSE patterns)

RECURSIVE BuildPatterns(_, _, _)
\* The first loop of Compress from site i on: the map from pattern to count.
BuildPatterns(alignment, i, patterns) ==
  IF ~Strict(patterns) \/ i > AlignmentLength(alignment) THEN patterns
  ELSE LET pattern == PatternAt(alignment, i)
       IN BuildPatterns(alignment, i + 1,
            IF pattern \notin DOMAIN patterns THEN patterns @@ (pattern :> 1)
            ELSE [patterns EXCEPT ![pattern] = @ + 1])

\* A number that orders the patterns, standing for the bucket order that
\* VectorHasher gives the unordered map.
PatternVal(pattern) ==
  SumOver([ t \in 1 .. SequenceCount |-> pattern[t] * Pow(5, t - 1) ],
          1 .. SequenceCount)

IteratePatterns(patterns, order) ==
  Iterate(DOMAIN patterns, [ p \in DOMAIN patterns |-> PatternVal(p) ], order)

InitSitePattern ==
  /\ tree_collection = {} /\ hash_order \in HashOrders
  /\ pc = "Compress" /\ failed = FALSE
  /\ rootsplits_ = <<>> /\ indexer_ = <<>> /\ parent_to_range_ = <<>>
  /\ index_to_child_ = <<>> /\ gpcsp_count_ = 0
  /\ subsplit_to_index_ = <<>> /\ dag_nodes_ = <<>>
  /\ pcsp_indexer_ = <<>> /\ subsplit2range_ = <<>>
  /\ rootward_order_ = <<>> /\ leafward_order_ = <<>>
  /\ operations = <<>> /\ phase = "none" /\ pending = FALSE /\ processed = 0
  /\ data_seed = 0 /\ q_ = <<>> /\ log_likelihoods_ = <<>>
  /\ NoNumericEngine
  /\ NoSBNInstance
  /\ NoStorage
  /\ alignment_ \in Alignments
  /\ patterns_ = [ taxon_number \in 1 .. SequenceCount |-> <<>> ]
  /\ weights_ = <<>>

Compress ==
  /\ pc = "Compress"
  /\ pc' = "SitePattern"
  /\ IF SymbolTableThrows(alignment_)
     THEN /\ thrown' = TRUE
          /\ UNCHANGED <<patterns_, weights_>>
     ELSE LET patterns == BuildPatterns(alignment_, 1, <<>>)
              order == IteratePatterns(patterns, hash_order)
          IN /\ patterns_' = [ taxon_number \in 1 .. SequenceCount |->
                                 [ k \in 1 .. Len(order) |-> order[k][taxon_number] ] ]
             /\ weights_' = weights_ \o [ k \in 1 .. Len(order) |-> patterns[order[k]] ]
             /\ UNCHANGED thrown
  /\ UNCHANGED <<dagVars, failed, streamVars, engineVars, rescaling_threshold_, plvs_,
                 plv_rescaling_counts_, branch_lengths_, true_plvs, last_op, op_count,
                 site_pattern_, alignment_, sbnVars, storageVars>>

NextSitePattern == Compress

SpecSitePattern == InitSitePattern /\ [][NextSitePattern]_vars

----------------------------------------------------------------------------
\* SBNInstance: reading tree files, ProcessLoadedTrees and TrainSimpleAverage.
\* The trees are the rooted topologies above; a tree collection is given by
\* its topology counter.

MaxTopologyCount == 2
MaxLoads == 2

\* The ladder topology (0,(1,(2,...))).
LadderTopology == { i .. (TaxonCount - 1) : i \in 0 .. (TaxonCount - 2) }

\* The collections a tree file can hold: the ladder topology alone or with one
\* other topology, each counted 1 .. MaxTopologyCount times.
TopologyCounters ==
  UNION { [ {LadderTopology, t} -> 1 .. MaxTopologyCount ] : t \in Topologies }

SBNMembers ==
  [index |-> 0, indexer_ |-> indexer_, rootsplits_ |-> rootsplits_,
   parent_to_range_ |-> parent_to_range_, index_to_child_ |-> index_to_child_,
   sbn_parameters_ |-> sbn_parameters_, topology_counter_ |-> topology_counter_,
   ok |-> TRUE]

\* As ClearTreeCollectionAssociatedState, without parent_to_range_.clear().
ClearAllButParentToRange(m) ==
  [m EXCEPT !.sbn_parameters_ = <<>>, !.rootsplits_ = <<>>, !.indexer_ = <<>>,
            !.index_to_child_ = <<>>, !.topology_counter_ = <<>>]

ClearTreeCollectionAssociatedState(m) ==
  [m EXCEPT !.sbn_parameters_ = <<>>, !.rootsplits_ = <<>>, !.indexer_ = <<>>,
            !.index_to_child_ = <<>>, !.parent_to_range_ = <<>>,
            !.topology_counter_ = <<>>]

\* SBNInstance::ProcessLoadedTrees on the members m with the collection
\* counter loaded: the members afterwards (ok is FALSE when a SafeInsert threw).
ProcessLoadedTreesResult(m, counter, order) ==
  LET st0 == [ClearTreeCollectionAssociatedState(m) EXCEPT
                !.index = 0, !.topology_counter_ = counter]
      tc == DOMAIN counter
      st1 == ProcessRootsplits(IterateClades(RootsplitCounterOf(tc), order), 1, st0)
      pcss == PCSSCounterOf(tc)
      st2 == ProcessPCSSs(pcss, IterateSubsplits(DOMAIN pcss, order), 1, order, st1)
  IN [st2 EXCEPT !.sbn_parameters_ = [ i \in 0 .. (st2.index - 1) |-> RInt(1) ]]

\* The rootsplit and the PCSSs of a rooted topology, as indexer keys.
TopologyRootsplit(t) == <<Child0(t, Taxa)>>
TopologyPCSSs(t) ==
  { <<SisterClade(t, d), d, Child0(t, d)>> : d \in t \ {Taxa} }

\* SBNMaps::IndexerRepresentationOf: the rootsplit indices and, per rooting,
\* the PCSS indices of a topology (one rooting for a rooted topology); a key
\* that is not in the indexer gets default_index.
IndexerRepresentationOf(indexer, topology, default_index) ==
  LET at == [ key \in {TopologyRootsplit(topology)} \cup TopologyPCSSs(topology) |->
                IF key \in DOMAIN indexer THEN indexer[key] ELSE default_index ]
      sorted == SortBy(TopologyPCSSs(topology), at)
  IN [rootsplits |-> << at[TopologyRootsplit(topology)] >>,
      pcss_vector_vector |-> << [ k \in 1 .. Len(sorted) |-> at[sorted[k]] ] >>]

RECURSIVE IndexerRepresentationCounterOf(_, _, _)
\* SBNMaps::IndexerRepresentationCounterOf: one entry per counted topology.
IndexerRepresentationCounterOf(indexer, topology_counter, default_index) ==
  IF DOMAIN topology_counter = {} THEN <<>>
  ELSE LET topology == CHOOSE t \in DOMAIN topology_counter : TRUE
           rest == [ t \in DOMAIN topology_counter \ {topology} |-> topology_counter[t] ]
       IN << <<IndexerRepresentationOf(indexer, topology, default_index),
               topology_counter[topology]>> >>
          \o IndexerRepresentationCounterOf(indexer, rest, default_index)

RECURSIVE IncrementBy(_, _, _, _)
\* IncrementBy(vec, indices, value), from position i of indices on.
IncrementBy(vec, indices, i, value) ==
  IF ~Strict(vec) \/ i > Len(indices) THEN vec
  ELSE IncrementBy([vec EXCEPT ![indices[i]] = RAdd(@, value)], indices, i + 1, value)

RECURSIVE IncrementByVectors(_, _, _, _)
\* IncrementBy(vec, index_vector_vector, value).
IncrementByVectors(vec, index_vector_vector, i, value) ==
  IF ~Strict(vec) \/ i > Len(index_vector_vector) THEN vec
  ELSE IncrementByVectors(IncrementBy(vec, index_vector_vector[i], 1, value),
                          index_vector_vector, i + 1, value)

RECURSIVE AccumulateCountsFrom(_, _, _)
AccumulateCountsFrom(counts, counter, i) ==
  IF ~Strict(counts) \/ i > Len(counter) THEN counts
  ELSE LET indexer_representation == counter[i][1]
           topology_count == RInt(counter[i][2])
           c1 == IncrementBy(counts, indexer_representation.rootsplits, 1, topology_count)
           c2 == IncrementByVectors(c1, indexer_representation.pcss_vector_vector, 1,
                                    topology_count)
       IN AccumulateCountsFrom(c2, counter, i + 1)

\* As AccumulateCounts, every counted topology counted once.
AccumulateCountsUnweighted(counts, indexer_representation_counter) ==
  AccumulateCountsFrom([ i \in DOMAIN counts |-> RInt(0) ],
                       [ i \in DOMAIN indexer_representation_counter |->
                           <<indexer_representation_counter[i][1], 1>> ], 1)

\* AccumulateCounts: counts.setZero(), then the loop over the counter.
AccumulateCounts(counts, indexer_representation_counter) ==
  AccumulateCountsFrom([ i \in DOMAIN counts |-> RInt(0) ],
                       indexer_representation_counter, 1)

\* segment /= segment.sum() on [start_idx, end_idx).
ProbabilityNormalizeRange(vec, range) ==
  LET sum == RSum(vec, range[1], range[2])
  IN [ i \in DOMAIN vec |->
         IF range[1] <= i /\ i < range[2] THEN RDiv(vec[i], sum) ELSE vec[i] ]

RECURSIVE ProbabilityNormalizeRanges(_, _, _, _)
ProbabilityNormalizeRanges(vec, parent_to_range, parents, k) ==
  IF ~Strict(vec) \/ k > Len(parents) THEN vec
  ELSE ProbabilityNormalizeRanges(
         ProbabilityNormalizeRange(vec, parent_to_range[parents[k]]),
         parent_to_range, parents, k + 1)

ProbabilityNormalizeParams(vec, rootsplit_count, parent_to_range, order) ==
  ProbabilityNormalizeRanges(
    ProbabilityNormalizeRange(vec, <<0, rootsplit_count>>),
    parent_to_range, IterateSubsplits(DOMAIN parent_to_range, order), 1)

\* SBNProbability::SimpleAverage.
SimpleAverage(sbn_parameters, counter, rootsplit_count, parent_to_range, order) ==
  ProbabilityNormalizeParams(
    AccumulateCounts(sbn_parameters, counter), rootsplit_count, parent_to_range, order)

InitSBN ==
  /\ tree_collection = {} /\ hash_order \in HashOrders
  /\ pc = "SBNInstance" /\ failed = FALSE
  /\ rootsplits_ = <<>> /\ indexer_ = <<>> /\ parent_to_range_ = <<>>
  /\ index_to_child_ = <<>> /\ gpcsp_count_ = 0
  /\ subsplit_to_index_ = <<>> /\ dag_nodes_ = <<>>
  /\ pcsp_indexer_ = <<>> /\ subsplit2range_ = <<>>
  /\ rootward_order_ = <<>> /\ leafward_order_ = <<>>
  /\ operations = <<>> /\ phase = "none" /\ pending = FALSE /\ processed = 0
  /\ data_seed = 0 /\ q_ = <<>> /\ log_likelihoods_ = <<>>
  /\ NoNumericEngine
  /\ NoSitePattern
  /\ NoSBNInstance
  /\ NoStorage

\* pc is the last operation called on the instance.
SBNRunning ==
  /\ pc \in {"SBNInstance", "ReadNewickFile", "ProcessLoadedTrees", "TrainSimpleAverage"}
  /\ ~failed

SBNUnchanged ==
  UNCHANGED <<tree_collection, hash_order, gpcsp_count_, subsplit_to_index_, dag_nodes_,
              pcsp_indexer_, subsplit2range_, rootward_order_, leafward_order_,
              streamVars, engineVars, rescaling_threshold_, plvs_,
              plv_rescaling_counts_, branch_lengths_, true_plvs, last_op, op_count,
              thrown, site_pattern_, siteVars, storageVars>>

\* SBNInstance::ReadNewickFile: the parsed collection replaces tree_collection_.
ReadNewickFile ==
  /\ SBNRunning
  /\ load_count < MaxLoads
  /\ \E counter \in TopologyCounters : tree_collection_' = counter
  /\ load_count' = load_count + 1
  /\ pc' = "ReadNewickFile"
  /\ UNCHANGED <<failed, rootsplits_, indexer_, parent_to_range_, index_to_child_,
                 topology_counter_, sbn_parameters_, stale_on_entry>>
  /\ SBNUnchanged

ProcessLoadedTrees ==
  /\ SBNRunning
  /\ \E m \in {ProcessLoadedTreesResult(SBNMembers, tree_collection_, hash_order)} :
        /\ failed' = ~m.ok
        /\ rootsplits_' = m.rootsplits_
        /\ indexer_' = m.indexer_
        /\ parent_to_range_' = m.parent_to_range_
        /\ index_to_child_' = m.index_to_child_
        /\ topology_counter_' = m.topology_counter_
        /\ sbn_parameters_' = m.sbn_parameters_
        /\ stale_on_entry' = (DOMAIN indexer_ \ DOMAIN m.indexer_ # {})
  /\ pc' = "ProcessLoadedTrees"
  /\ UNCHANGED <<tree_collection_, load_count>>
  /\ SBNUnchanged

\* SBNInstance::TrainSimpleAverage.
TrainSimpleAverage ==
  /\ SBNRunning
  /\ LET indexer_representation_counter ==
           IndexerRepresentationCounterOf(indexer_, topology_counter_,
                                          Cardinality(DOMAIN sbn_parameters_))
     IN sbn_parameters_' =
          SimpleAverage(sbn_parameters_, indexer_representation_counter,
                        Len(rootsplits_), parent_to_range_, hash_order)
  /\ pc' = "TrainSimpleAverage"
  /\ UNCHANGED <<failed, rootsplits_, indexer_, parent_to_range_, index_to_child_,
                 topology_counter_, tree_collection_, load_count, stale_on_entry>>
  /\ SBNUnchanged

NextSBN ==
  \/ ReadNewickFile
  \/ ProcessLoadedTrees
  \/ TrainSimpleAverage

SpecSBN == InitSBN /\ [][NextSBN]_vars

----------------------------------------------------------------------------
\* The arithmetic engine over the PLVs of a constructed DAG: the engine is made
\* on the DAG, the PLVs are populated by the rootward and the leafward pass,
\* and the branch-length optimisation stream is executed op by op.  The PLV
\* entries stay far above the default rescaling threshold, so that
\* RescalePLVIfNeeded never rescales and every counter stays 0.

\* One pattern in which taxon i shows the symbol i mod BaseCount.
DAGSitePattern ==
  [ taxon \in 1 .. TaxonCount |-> [ site \in 1 .. PatternCount |-> (taxon - 1) % BaseCount ] ]

DAGPLVSlots == 0 .. (plv_count_per_node_ * Len(dag_nodes_) - 1)

\* GPEngine::InitializePLVsWithSitePatterns on the PLVs of the DAG.
InitializeDAGPLVs(patterns) ==
  [ slot \in DAGPLVSlots |->
      IF slot < taxon_count_
      THEN [ en \in PLVEntries |->
               LET symbol == patterns[slot + 1][en[2]]
               IN IF symbol = BaseCount \/ symbol = en[1] - 1 THEN RInt(1) ELSE RInt(0) ]
      ELSE ZeroPLV ]

RECURSIVE RunOperations(_, _, _, _)
\* GPEngine::ProcessOperations on a stream of PLV ops, from op i on.
RunOperations(plvs, e, ops, i) ==
  IF ~Strict(plvs) \/ i > Len(ops) THEN plvs
  ELSE RunOperations(UnrescaledOp(plvs, e, ops[i]), e, ops, i + 1)

\* A full rootward pass followed by a full leafward pass.
FullPasses == SetRootwardZero \o RootwardPass \o SetLeafwardZero \o LeafwardPass

\* The optimiser returns a point of its grid where the objective is least.
BrentMinimum(e, op) ==
  { b \in BrentMinimize(e, op) :
      \A c \in BrentMinimize(e, op) : ~RLess(b.likelihood, c.likelihood) }

MakeEngineOnDAG ==
  /\ pc = "MakeEngine"
  /\ pc' = "PopulatePLVs"
  /\ site_pattern_' = DAGSitePattern
  /\ plvs_' = InitializeDAGPLVs(DAGSitePattern)
  /\ plv_rescaling_counts_' = [ slot \in DAGPLVSlots |-> 0 ]
  /\ branch_lengths_' = [ i \in 0 .. (ContinuousParameterCount - 1) |-> RInt(1) ]
  /\ q_' = BuildUniformQ
  /\ log_likelihoods_' = [ i \in 0 .. (ContinuousParameterCount - 1) |-> NaN ]
  /\ UNCHANGED <<dagVars, failed, streamVars, data_seed, rescaling_threshold_, true_plvs,
                 last_op, op_count, thrown, siteVars, sbnVars, storageVars>>

PopulatePLVs ==
  /\ pc = "PopulatePLVs"
  /\ pc' = "ready"
  /\ plvs_' = RunOperations(plvs_, EngineState, FullPasses, 1)
  /\ UNCHANGED <<dagVars, failed, streamVars, engineVars, rescaling_threshold_,
                 plv_rescaling_counts_, branch_lengths_, true_plvs, last_op, op_count,
                 thrown, site_pattern_, siteVars, sbnVars, storageVars>>

StartBranchLengthOptimization ==
  /\ processed = 0
  /\ plvs_ # <<>>
  /\ Schedule("BranchLengthOptimization")

\* The engine executes the next op of the scheduled stream.
ExecuteScheduled ==
  /\ pc = "ready"
  /\ pending
  /\ op_count < Len(operations)
  /\ LET op == operations[op_count + 1]
     IN /\ IF op.op = "OptimizeBranchLength"
           THEN /\ \E brent \in BrentMinimum(EngineState, op) :
                     branch_lengths_' =
                       BrentOptimization(EngineState, op, brent).branch_lengths_
                /\ UNCHANGED plvs_
           ELSE /\ plvs_' = UnrescaledOp(plvs_, EngineState, op)
                /\ UNCHANGED branch_lengths_
        /\ last_op' = op
  /\ op_count' = op_count + 1
  /\ pending' = (op_count + 1 < Len(operations))
  /\ processed' = IF op_count + 1 < Len(operations) THEN processed ELSE processed + 1
  /\ UNCHANGED <<dagVars, pc, failed, operations, phase, engineVars,
                 rescaling_threshold_, plv_rescaling_counts_, true_plvs, thrown,
                 site_pattern_, siteVars, sbnVars, storageVars>>

NextOptimization ==
  \/ ProcessTrees
  \/ BuildNodes
  \/ BuildEdges
  \/ BuildPCSPIndexer
  \/ SetRootwardOrder
  \/ SetLeafwardOrder
  \/ MakeEngineOnDAG
  \/ PopulatePLVs
  \/ StartBranchLengthOptimization
  \/ ExecuteScheduled

SpecOptimization == Init /\ [][NextOptimization]_vars

----------------------------------------------------------------------------
\* The engine marginalising: a few ops that build up rescaling counters, then
\* one PrepForMarginalization, then IncrementWithWeightedEvolvedPLV ops into
\* its destination from its sources.  operations records the ops executed
\* from the PrepForMarginalization on.

\* Number of ops before the PrepForMarginalization, length of its source
\* vector and number of increments after it.
MaxBuildOps == 2
MaxSrcCount == 2
MaxIncrements == 2

\* Vectors of at most MaxSrcCount PLV slots.
SrcVectors == UNION { [ 1 .. n -> PLVSlots ] : n \in 0 .. MaxSrcCount }

MarginalizationRunning == pc = "engine" /\ ~thrown

\* The engine executes op, arrives at e, and the op is recorded.
ArrivesRecorded(op, e) ==
  /\ op_count' = op_count + 1
  /\ last_op' = op
  /\ operations' = Append(operations, op)
  /\ thrown' = ~e.ok
  /\ plvs_' = IF e.ok THEN e.plvs_ ELSE plvs_
  /\ plv_rescaling_counts_' = IF e.ok THEN e.plv_rescaling_counts_
                              ELSE plv_rescaling_counts_
  /\ UNCHANGED <<dagVars, pc, failed, phase, pending, processed, engineVars,
                 rescaling_threshold_, branch_lengths_, true_plvs, site_pattern_,
                 siteVars, sbnVars, storageVars>>

BuildSetToStationaryDistribution ==
  /\ MarginalizationRunning /\ operations = <<>> /\ op_count < MaxBuildOps
  /\ \E dest \in WorkSlots :
       Executes(SetToStationaryDistribution(dest),
                OpSetToStationaryDistribution(EngineState,
                                              SetToStationaryDistribution(dest)))

BuildMultiply ==
  /\ MarginalizationRunning /\ operations = <<>> /\ op_count < MaxBuildOps
  /\ \E dest \in WorkSlots : \E src1 \in PLVSlots : \E src2 \in PLVSlots :
       Executes(Multiply(dest, src1, src2),
                OpMultiply(EngineState, Multiply(dest, src1, src2)))

Prepare ==
  /\ MarginalizationRunning /\ operations = <<>>
  /\ \E dest \in WorkSlots : \E src_vector \in SrcVectors :
     \E e \in {OpPrepForMarginalization(EngineState,
                                        PrepForMarginalization(dest, src_vector))} :
       ArrivesRecorded(PrepForMarginalization(dest, src_vector), e)

Increment ==
  /\ MarginalizationRunning /\ operations # <<>>
  /\ Len(operations) <= MaxIncrements
  /\ \E src \in SeqToSet(operations[1].src_vector_) : \E gpcsp \in EngineGPCSPs :
     \E e \in {OpIncrementWithWeightedEvolvedPLV(
                 EngineState,
                 WeightedSumAccumulate(operations[1].dest_, gpcsp, src))} :
       ArrivesRecorded(WeightedSumAccumulate(operations[1].dest_, gpcsp, src), e)

NextMarginalization ==
  \/ BuildSetToStationaryDistribution
  \/ BuildMultiply
  \/ Prepare
  \/ Increment

SpecMarginalization == InitEngine /\ [][NextMarginalization]_vars

----------------------------------------------------------------------------

\* The rescaling counters of an engine that processes the scheduler's streams.
\* The PLV entries are not represented: the count RescalePLVIfNeeded finds for
\* a slot is a number fixed by the data, as PatternLikelihood is.

\* The rescaling_count RescalePLVIfNeeded passes to RescalePLV for slot
\* plv_idx: 0 (no entry below the threshold, or an exact zero) or more.
RescalingCountOf(seed, plv_idx) == (seed * (plv_idx + 1)) % 3

\* GPEngine::operator() on the rescaling counters; e.ok is FALSE once an Assert
\* on the counters has failed.
CountOperation(e, op) ==
  CASE op.op \in {"Zero", "SetToStationaryDistribution"} ->
         [e EXCEPT !.plv_rescaling_counts_[op.dest_] = 0]
    [] op.op = "WeightedSumAccumulate" ->
         IF e.plv_rescaling_counts_[op.dest_] - e.plv_rescaling_counts_[op.src_] <= 0
         THEN e ELSE [e EXCEPT !.ok = FALSE]
    [] op.op = "Multiply" ->
         [e EXCEPT !.plv_rescaling_counts_[op.dest_] =
            e.plv_rescaling_counts_[op.src1_] + e.plv_rescaling_counts_[op.src2_]
            + RescalingCountOf(e.data_seed, op.dest_)]
    [] op.op = "MarginalLikelihood" ->
         IF e.plv_rescaling_counts_[op.stationary_] = 0
         THEN e ELSE [e EXCEPT !.ok = FALSE]
    [] OTHER -> e

RECURSIVE CountOperations(_, _, _)
\* GPEngine::ProcessOperations on the rescaling counters, from op i on; a
\* failed Assert throws out of the loop.
CountOperations(ops, i, e) ==
  IF ~Strict(e) \/ i > Len(ops) \/ ~e.ok THEN e
  ELSE CountOperations(ops, i + 1, CountOperation(e, ops[i]))

\* GPEngine::GPEngine: every counter is 0.
MakeCountingEngine ==
  /\ pc = "MakeEngine"
  /\ pc' = "ready"
  /\ data_seed' \in DataSeeds
  /\ plv_rescaling_counts_' = [ slot \in DAGPLVSlots |-> 0 ]
  /\ UNCHANGED <<dagVars, failed, streamVars, q_, log_likelihoods_,
                 rescaling_threshold_, plvs_, branch_lengths_, true_plvs, last_op,
                 op_count, thrown, site_pattern_, siteVars, sbnVars, storageVars>>

\* The engine processes the stream just returned.
ProcessCounting ==
  /\ pc = "ready"
  /\ pending /\ ~thrown
  /\ \E e \in {CountOperations(operations, 1,
                 [plv_rescaling_counts_ |-> plv_rescaling_counts_,
                  data_seed |-> data_seed, ok |-> TRUE])} :
       /\ plv_rescaling_counts_' = e.plv_rescaling_counts_
       /\ thrown' = ~e.ok
  /\ pending' = FALSE
  /\ processed' = processed + 1
  /\ UNCHANGED <<dagVars, pc, failed, operations, phase, engineVars,
                 rescaling_threshold_, plvs_, branch_lengths_, true_plvs, last_op,
                 op_count, site_pattern_, siteVars, sbnVars, storageVars>>

NextCounting ==
  \/ ProcessTrees
  \/ BuildNodes
  \/ BuildEdges
  \/ BuildPCSPIndexer
  \/ SetRootwardOrder
  \/ SetLeafwardOrder
  \/ MakeCountingEngine
  \/ \E ph \in Phases : Schedule(ph)
  \/ ProcessCounting

SpecCounting == Init /\ [][NextCounting]_vars

----------------------------------------------------------------------------

\* The engine executing the SBNParameterOptimization stream one op at a time.

StartSBNParameterOptimization ==
  /\ processed = 0
  /\ op_count = 0
  /\ Schedule("SBNParameterOptimization")

\* One iteration of the loop of GPEngine::ProcessOperations on the stream.
ExecuteStreamOperation ==
  /\ pc = "ready"
  /\ pending
  /\ op_count < Len(operations)
  /\ \E e \in {ExecOperation([data_seed |-> data_seed, q_ |-> q_,
                              log_likelihoods_ |-> log_likelihoods_],
                             operations[op_count + 1])} :
       /\ q_' = e.q_
       /\ log_likelihoods_' = e.log_likelihoods_
  /\ last_op' = operations[op_count + 1]
  /\ op_count' = op_count + 1
  /\ pending' = (op_count + 1 < Len(operations))
  /\ processed' = IF op_count + 1 < Len(operations) THEN processed ELSE processed + 1
  /\ UNCHANGED <<dagVars, pc, failed, operations, phase, data_seed,
                 rescaling_threshold_, plvs_, plv_rescaling_counts_, branch_lengths_,
                 true_plvs, thrown, site_pattern_, siteVars, sbnVars, storageVars>>

NextSBNOptimization ==
  \/ ProcessTrees
  \/ BuildNodes
  \/ BuildEdges
  \/ BuildPCSPIndexer
  \/ SetRootwardOrder
  \/ SetLeafwardOrder
  \/ MakeEngine
  \/ SetUniformQ
  \/ StartSBNParameterOptimization
  \/ ExecuteStreamOperation

SpecSBNOptimization == Init /\ [][NextSBNOptimization]_vars

----------------------------------------------------------------------------

\* SubsplitDAGStorage (subsplit_dag_storage.hpp): a host storage built up by
\* its public operations, then a graft storage over it.  pc is "storage" while
\* the host is built, "graft" once the graft exists, "reset" after ResetHost.

\* Vertex ids the host is filled with are below MaxVertexCount, its line ids
\* below MaxLineCount; the graft adds ids up to and including these two.
MaxVertexCount == 2
MaxLineCount == 2
\* Number of operations called on the host, and on the graft.
MaxHostOps == 4
MaxGraftOps == 3

\* Width of size_t, scaled down.
IdBits == 4
\* NoId: std::numeric_limits<size_t>::max().
NoId == Pow(2, IdBits) - 1

VertexIds == 0 .. (MaxVertexCount - 1)
LineIds == 0 .. (MaxLineCount - 1)

\* The keys of DAGVertex::neighbors_ in the order std::map iterates them.
NeighborKeys ==
  << <<"Rootward", "Left">>, <<"Rootward", "Right">>,
     <<"Leafward", "Left">>, <<"Leafward", "Right">> >>

\* DAGVertex::ClearNeighbors, and the initial value of neighbors_: each
\* std::map<VertexId, LineId> is the set of its <<vertex, line>> entries.
NoNeighbors == [ key \in { NeighborKeys[k] : k \in 1 .. Len(NeighborKeys) } |-> {} ]

\* A default-constructed DAGVertex and DAGVertex(id, subsplit).
DAGVertex(id) == [ id_ |-> id, neighbors_ |-> NoNeighbors ]

\* DAGLineStorage.
DAGLineStorage(id, parent, child, clade) ==
  [ id_ |-> id, parent_ |-> parent, child_ |-> child, clade_ |-> clade ]

\* DAGVertex::AddNeighbor: std::map::insert keeps an entry that is there.
AddNeighbor(vertex, direction, clade, neighbor, line) ==
  [ vertex EXCEPT !.neighbors_[<<direction, clade>>] =
      IF \E x \in @ : x[1] = neighbor THEN @ ELSE @ \cup { <<neighbor, line>> } ]

\* DAGVertex::RemoveNeighbor.
RemoveNeighbor(vertex, direction, clade, neighbor) ==
  [ vertex EXCEPT !.neighbors_[<<direction, clade>>] = { x \in @ : x[1] # neighbor } ]

\* DAGVertex::ClearNeighbors.
ClearNeighbors(vertex) == [ vertex EXCEPT !.neighbors_ = NoNeighbors ]

\* std::nullopt and an engaged std::optional.
nullopt == [ has_value |-> FALSE ]
Optional(value) == [ has_value |-> TRUE, value |-> value ]

\* DAGVertex::FindNeighbor: the first of the four maps that holds the key.
FindNeighbor(vertex, neighbor) ==
  LET hits == { k \in 1 .. Len(NeighborKeys) :
                  \E x \in vertex.neighbors_[NeighborKeys[k]] : x[1] = neighbor }
  IN IF hits = {} THEN nullopt
     ELSE LET k == CHOOSE k \in hits : \A j \in hits : k <= j
              x == CHOOSE x \in vertex.neighbors_[NeighborKeys[k]] : x[1] = neighbor
          IN Optional(<<x[2], NeighborKeys[k][1], NeighborKeys[k][2]>>)

\* HostableVector: host is what host_ points at (the host's data_).
HostableVector(have_host, host, data) ==
  [ have_host |-> have_host, host |-> host, data |-> data ]

\* HostableVector::HostSize.
HostSize(hv) == IF hv.have_host THEN Len(hv.host) ELSE 0

\* HostableVector::size.
HostableVectorSize(hv) == HostSize(hv) + Len(hv.data)

\* HostableVector::at and operator[], for an index below size().
HostableVectorAt(hv, i) ==
  IF i < HostSize(hv) THEN hv.host[i + 1] ELSE hv.data[i - HostSize(hv) + 1]

\* Assignment through the reference that at / operator[] returns.
HostableVectorAssign(hv, i, x) ==
  IF i < HostSize(hv) THEN [ hv EXCEPT !.host[i + 1] = x ]
  ELSE [ hv EXCEPT !.data[i - HostSize(hv) + 1] = x ]

\* HostableVector::resize.
HostableVectorResize(hv, new_size, fresh) ==
  [ hv EXCEPT !.data = [ k \in 1 .. (new_size - HostSize(hv)) |->
                           IF k <= Len(hv.data) THEN hv.data[k] ELSE fresh ] ]

\* SubsplitDAGStorage::GetOrInsert, up to the reference it returns.
GetOrInsert(data, id, fresh) ==
  IF id >= HostableVectorSize(data) THEN HostableVectorResize(data, id + 1, fresh)
  ELSE data

\* The host storage and the graft storage as objects.
HostStorage ==
  [ vertices_ |-> HostableVector(FALSE, <<>>, vertices_),
    lines_ |-> HostableVector(FALSE, <<>>, lines_) ]
GraftStorage ==
  [ vertices_ |-> HostableVector(TRUE, vertices_, graft_vertices_),
    lines_ |-> HostableVector(TRUE, lines_, graft_lines_) ]

\* The outcome of an operation: the storage it leaves, and whether it threw.
Returned(storage) == [ storage |-> storage, thrown |-> FALSE ]
Threw(storage) == [ storage |-> storage, thrown |-> TRUE ]

\* SubsplitDAGStorage::AddVertex.
AddVertex(storage, newVertex) ==
  IF newVertex.id_ = NoId THEN Threw(storage)
  ELSE Returned([ storage EXCEPT !.vertices_ =
         HostableVectorAssign(GetOrInsert(@, newVertex.id_, DAGVertex(NoId)),
                              newVertex.id_, newVertex) ])

\* SubsplitDAGStorage::AddLine.
AddLine(storage, newLine) ==
  IF newLine.id_ = NoId \/ newLine.clade_ = "Unspecified" THEN Threw(storage)
  ELSE Returned([ storage EXCEPT !.lines_ =
         HostableVectorAssign(
           GetOrInsert(@, newLine.id_, DAGLineStorage(NoId, NoId, NoId, "Unspecified")),
           newLine.id_, newLine) ])

\* ConnectVertices that records the line at the parent only.
ConnectVerticesLeafwardOnly(storage, line_id) ==
  IF line_id >= HostableVectorSize(storage.lines_) THEN Threw(storage)
  ELSE
    LET line == HostableVectorAt(storage.lines_, line_id)
    IN IF \/ line.parent_ >= HostableVectorSize(storage.vertices_)
          \/ line.child_ >= HostableVectorSize(storage.vertices_)
       THEN Threw(storage)
       ELSE Returned([ storage EXCEPT !.vertices_ =
              HostableVectorAssign(@, line.parent_,
                AddNeighbor(HostableVectorAt(@, line.parent_), "Leafward", line.clade_,
                            HostableVectorAt(@, line.child_).id_, line_id)) ])

\* SubsplitDAGStorage::ConnectVertices.  The three at() calls throw
\* std::out_of_range before a vertex is touched.
ConnectVertices(storage, line_id) ==
  IF line_id >= HostableVectorSize(storage.lines_) THEN Threw(storage)
  ELSE
    LET line == HostableVectorAt(storage.lines_, line_id)
    IN IF \/ line.parent_ >= HostableVectorSize(storage.vertices_)
          \/ line.child_ >= HostableVectorSize(storage.vertices_)
       THEN Threw(storage)
       ELSE
         LET child_id == HostableVectorAt(storage.vertices_, line.child_).id_
             with_parent ==
               HostableVectorAssign(storage.vertices_, line.parent_,
                 AddNeighbor(HostableVectorAt(storage.vertices_, line.parent_),
                             "Leafward", line.clade_, child_id, line_id))
             parent_id == HostableVectorAt(with_parent, line.parent_).id_
         IN Returned([ storage EXCEPT !.vertices_ =
              HostableVectorAssign(with_parent, line.child_,
                AddNeighbor(HostableVectorAt(with_parent, line.child_),
                            "Rootward", line.clade_, parent_id, line_id)) ])

\* The second loop of ConnectAllVertices from index i on.
RECURSIVE ConnectLinesFrom(_, _)
ConnectLinesFrom(storage, i) ==
  IF ~Strict(storage) \/ i >= HostableVectorSize(storage.lines_) THEN Returned(storage)
  ELSE IF HostableVectorAt(storage.lines_, i).id_ = NoId
       THEN ConnectLinesFrom(storage, i + 1)
       ELSE LET r == ConnectVertices(storage, HostableVectorAt(storage.lines_, i).id_)
            IN IF r.thrown THEN r ELSE ConnectLinesFrom(r.storage, i + 1)

\* SubsplitDAGStorage::ConnectAllVertices.
ConnectAllVertices(storage) ==
  ConnectLinesFrom(
    [ storage EXCEPT !.vertices_ =
        [ @ EXCEPT !.host = [ k \in DOMAIN @ |-> ClearNeighbors(@[k]) ],
                   !.data = [ k \in DOMAIN @ |-> ClearNeighbors(@[k]) ] ] ], 0)

\* SubsplitDAGStorage::GetLine(VertexId parent, VertexId child).  lines_.at
\* throws std::out_of_range for a line id that the vector does not hold.
GetLine(storage, parent, child) ==
  IF \/ parent >= HostableVectorSize(storage.vertices_)
     \/ child >= HostableVectorSize(storage.vertices_)
  THEN Returned(nullopt)
  ELSE LET result == FindNeighbor(HostableVectorAt(storage.vertices_, parent), child)
       IN IF ~result.has_value THEN Returned(nullopt)
          ELSE IF result.value[1] >= HostableVectorSize(storage.lines_)
               THEN Threw(nullopt)
               ELSE Returned(Optional(HostableVectorAt(storage.lines_, result.value[1])))

\* The loop body of ResetHost for one line of the graft.
ResetHostLine(vertices, line) ==
  LET host_size == HostSize(vertices)
      after_child ==
        IF line.parent_ >= host_size /\ line.child_ < host_size
        THEN HostableVectorAssign(vertices, line.child_,
               RemoveNeighbor(HostableVectorAt(vertices, line.child_),
                              "Rootward", line.clade_, line.parent_))
        ELSE vertices
  IN IF line.child_ >= host_size /\ line.parent_ < host_size
     THEN HostableVectorAssign(after_child, line.parent_,
            RemoveNeighbor(HostableVectorAt(after_child, line.parent_),
                           "Leafward", line.clade_, line.child_))
     ELSE after_child

\* The loop of ResetHost from index i on.
RECURSIVE ResetHostFrom(_, _, _)
ResetHostFrom(vertices, lines, i) ==
  IF ~Strict(vertices) \/ i >= HostableVectorSize(lines) THEN vertices
  ELSE ResetHostFrom(ResetHostLine(vertices, HostableVectorAt(lines, i)), lines, i + 1)

\* SubsplitDAGStorage::ResetHost(host), called on the graft with its own host.
ResetHost(storage) ==
  LET vertices == ResetHostFrom(storage.vertices_, storage.lines_, HostSize(storage.lines_))
  IN [ vertices_ |-> [ vertices EXCEPT !.data = <<>> ],
       lines_ |-> [ storage.lines_ EXCEPT !.data = <<>> ] ]

InitStorage ==
  /\ tree_collection = {} /\ hash_order = "asc"
  /\ pc = "storage" /\ failed = FALSE
  /\ rootsplits_ = <<>> /\ indexer_ = <<>> /\ parent_to_range_ = <<>>
  /\ index_to_child_ = <<>> /\ gpcsp_count_ = 0
  /\ subsplit_to_index_ = <<>> /\ dag_nodes_ = <<>>
  /\ pcsp_indexer_ = <<>> /\ subsplit2range_ = <<>>
  /\ rootward_order_ = <<>> /\ leafward_order_ = <<>>
  /\ operations = <<>> /\ phase = "none" /\ pending = FALSE /\ processed = 0
  /\ data_seed = 0 /\ q_ = <<>> /\ log_likelihoods_ = <<>>
  /\ NoNumericEngine
  /\ NoSitePattern
  /\ NoSBNInstance
  /\ NoStorage

StorageUnchanged ==
  UNCHANGED <<dagVars, failed, streamVars, engineVars, rescaling_threshold_, plvs_,
              plv_rescaling_counts_, branch_lengths_, true_plvs, site_pattern_,
              siteVars, sbnVars>>

\* An operation called on the host storage returns or throws.
HostOperation(name, r) ==
  /\ vertices_' = r.storage.vertices_.data
  /\ lines_' = r.storage.lines_.data
  /\ thrown' = r.thrown
  /\ last_op' = [ op |-> name ]
  /\ op_count' = op_count + 1
  /\ UNCHANGED <<pc, graft_vertices_, graft_lines_, vertices_at_graft>>
  /\ StorageUnchanged

\* An operation called on the graft storage returns or throws; what it wrote
\* through host_ is in the host's vectors.
GraftOperation(name, r) ==
  /\ vertices_' = r.storage.vertices_.host
  /\ lines_' = r.storage.lines_.host
  /\ graft_vertices_' = r.storage.vertices_.data
  /\ graft_lines_' = r.storage.lines_.data
  /\ thrown' = r.thrown
  /\ last_op' = [ op |-> name ]
  /\ op_count' = op_count + 1
  /\ UNCHANGED <<pc, vertices_at_graft>>
  /\ StorageUnchanged

HostRunning == pc = "storage" /\ ~thrown /\ op_count < MaxHostOps
GraftRunning == pc = "graft" /\ ~thrown /\ op_count < MaxGraftOps

Clades == { "Unspecified", "Left", "Right" }

HostAddVertex ==
  /\ HostRunning
  /\ \E id \in VertexIds \cup {NoId} :
       HostOperation("AddVertex", AddVertex(HostStorage, DAGVertex(id)))

HostAddLine ==
  /\ HostRunning
  /\ \E id \in LineIds \cup {NoId}, parent \in VertexIds, child \in VertexIds,
        clade \in Clades :
       HostOperation("AddLine",
                     AddLine(HostStorage, DAGLineStorage(id, parent, child, clade)))

HostConnectVertices ==
  /\ HostRunning
  /\ \E line_id \in LineIds :
       HostOperation("ConnectVertices", ConnectVertices(HostStorage, line_id))

HostConnectAllVertices ==
  /\ HostRunning
  /\ HostOperation("ConnectAllVertices", ConnectAllVertices(HostStorage))

\* GetLine(parent, child) called on the host storage, before the graft is
\* made or after it is reset.
HostGetLine ==
  /\ pc \in { "storage", "reset" } /\ ~thrown
  /\ last_op.op # "GetLine"
  /\ \E parent \in 0 .. MaxVertexCount, child \in 0 .. MaxVertexCount :
       \E r \in { GetLine(HostStorage, parent, child) } :
         /\ last_op' = [ op |-> "GetLine", parent |-> parent, child |-> child,
                         result |-> r.storage ]
         /\ thrown' = r.thrown
  /\ UNCHANGED <<pc, op_count, storageVars>>
  /\ StorageUnchanged

\* SubsplitDAGStorage(host, HostDispatchTag).
MakeGraft ==
  /\ pc = "storage" /\ ~thrown
  /\ pc' = "graft"
  /\ vertices_at_graft' = vertices_
  /\ last_op' = [ op |-> "SubsplitDAGStorage" ]
  /\ op_count' = 0
  /\ UNCHANGED <<vertices_, lines_, graft_vertices_, graft_lines_, thrown>>
  /\ StorageUnchanged

\* The graft's vertices and lines take ids at or above the host's counts.
GraftAddVertex ==
  /\ GraftRunning
  /\ \E id \in Len(vertices_) .. MaxVertexCount :
       GraftOperation("AddVertex", AddVertex(GraftStorage, DAGVertex(id)))

GraftAddLine ==
  /\ GraftRunning
  /\ \E id \in Len(lines_) .. MaxLineCount, parent \in 0 .. MaxVertexCount,
        child \in 0 .. MaxVertexCount, clade \in Clades \ {"Unspecified"} :
       GraftOperation("AddLine",
                      AddLine(GraftStorage, DAGLineStorage(id, parent, child, clade)))

GraftConnectVertices ==
  /\ GraftRunning
  /\ \E line_id \in Len(lines_) .. MaxLineCount :
       GraftOperation("ConnectVertices", ConnectVertices(GraftStorage, line_id))

GraftResetHost ==
  /\ pc = "graft" /\ ~thrown
  /\ pc' = "reset"
  /\ \E storage \in { ResetHost(GraftStorage) } :
       /\ vertices_' = storage.vertices_.host
       /\ lines_' = storage.lines_.host
       /\ graft_vertices_' = storage.vertices_.data
       /\ graft_lines_' = storage.lines_.data
  /\ last_op' = [ op |-> "ResetHost" ]
  /\ UNCHANGED <<op_count, thrown, vertices_at_graft>>
  /\ StorageUnchanged

NextStorage ==
  \/ HostAddVertex
  \/ HostAddLine
  \/ HostConnectVertices
  \/ HostConnectAllVertices
  \/ HostGetLine
  \/ MakeGraft
  \/ GraftAddVertex
  \/ GraftAddLine
  \/ GraftConnectVertices
  \/ GraftResetHost

SpecStorage == InitStorage /\ [][NextStorage]_vars

\* GPDAG construction and a storage filled by its operations, side by side:
\* a behaviour constructs a GPDAG or builds up a host storage.
InitAdjacency == Init \/ InitStorage

NextAdjacency ==
  \/ ProcessTrees
  \/ BuildNodes
  \/ BuildEdges
  \/ BuildPCSPIndexer
  \/ SetRootwardOrder
  \/ SetLeafwardOrder
  \/ HostAddVertex
  \/ HostAddLine
  \/ HostConnectVertices
  \/ HostConnectAllVertices

SpecAdjacency == InitAdjacency /\ [][NextAdjacency]_vars

----------------------------------------------------------------------------

\* What an op reads and writes.  A slot is <<"plv", i>>, <<"q", g>>,
\* <<"branch_lengths", g>> or <<"log_likelihoods", g>>.

Slots(kind, S) == { <<kind, i>> : i \in S }

\* The PLV slots an op reads as source operands.
PLVSources(op) ==
  CASE op.op = "WeightedSumAccumulate" -> {op.src_}
    [] op.op = "Multiply" -> {op.src1_, op.src2_}
    [] op.op = "Likelihood" -> {op.parent_, op.child_}
    [] op.op = "OptimizeBranchLength" -> {op.rootward_, op.leafward_}
    [] op.op = "MarginalLikelihood" -> {op.stationary_, op.p_}
    [] OTHER -> {}

\* All PLV slots an op reads: an accumulate also reads its destination.
PLVReads(op) ==
  PLVSources(op) \cup (IF op.op = "WeightedSumAccumulate" THEN {op.dest_} ELSE {})

PLVWrites(op) ==
  IF op.op \in {"Zero", "SetToStationaryDistribution", "WeightedSumAccumulate", "Multiply"}
  THEN {op.dest_} ELSE {}

ParamReads(op) ==
  CASE op.op = "WeightedSumAccumulate" ->
         {<<"q", op.gpcsp_>>, <<"branch_lengths", op.gpcsp_>>}
    [] op.op = "Likelihood" -> {<<"q", op.dest_>>, <<"branch_lengths", op.dest_>>}
    [] op.op = "OptimizeBranchLength" ->
         {<<"q", op.gpcsp_>>, <<"branch_lengths", op.gpcsp_>>}
    [] op.op = "MarginalLikelihood" -> {<<"q", op.rootsplit_>>}
    [] op.op = "UpdateSBNProbabilities" ->
         IF op.stop_ - op.start_ = 1 THEN {}
         ELSE Slots("log_likelihoods", op.start_ .. (op.stop_ - 1))
    [] OTHER -> {}

ParamWrites(op) ==
  CASE op.op = "Likelihood" -> {<<"log_likelihoods", op.dest_>>}
    [] op.op = "MarginalLikelihood" -> {<<"log_likelihoods", op.rootsplit_>>}
    [] op.op = "OptimizeBranchLength" -> {<<"branch_lengths", op.gpcsp_>>}
    [] op.op = "UpdateSBNProbabilities" ->
         Slots("q", op.start_ .. (op.stop_ - 1))
         \cup (IF op.stop_ - op.start_ = 1 THEN {}
               ELSE Slots("log_likelihoods", op.start_ .. (op.stop_ - 1)))
    [] OTHER -> {}

SlotsRead(op) == Slots("plv", PLVReads(op)) \cup ParamReads(op)
SlotsWritten(op) == Slots("plv", PLVWrites(op)) \cup ParamWrites(op)

\* The slots written by the ops of the stream before position k.
WrittenBefore(ops, k) == UNION { SlotsWritten(ops[j]) : j \in 1 .. (k - 1) }

\* The gpcsp indices an op carries.
GPCSPIndices(op) ==
  CASE op.op = "WeightedSumAccumulate" -> {op.gpcsp_}
    [] op.op = "Likelihood" -> {op.dest_}
    [] op.op = "OptimizeBranchLength" -> {op.gpcsp_}
    [] op.op = "MarginalLikelihood" -> {op.rootsplit_}
    [] op.op = "UpdateSBNProbabilities" -> op.start_ .. (op.stop_ - 1)
    [] OTHER -> {}

NonLeafIds == { i \in 0 .. (Len(dag_nodes_) - 1) : ~IsLeaf(NodeAt(dag_nodes_, i)) }
RootIds == { RootId(i) : i \in 1 .. Len(rootsplits_) }

----------------------------------------------------------------------------
\* Properties of the constructed DAG.

\* The GPDAG constructor has returned.  No later step changes the DAG, so its
\* properties are stated for this state.
Constructed == pc = "MakeEngine"

RangeSet(r) == r[1] .. (r[2] - 1)
PCSPIndexValues == { pcsp_indexer_[k] : k \in DOMAIN pcsp_indexer_ }
SideChildren(node, rotated) ==
  IF rotated THEN node.leafward_rotated ELSE node.leafward_sorted
SideSubsplit(node, rotated) ==
  IF rotated THEN RotateSubsplit(node.bitset) ELSE node.bitset

\* C3: the PCSP indexer is a bijection from the rootsplits and the DAG edges
\* onto 0 .. n-1; the rootsplits take 0 .. R-1 in rootsplit order; the edges
\* under each parent clade side take exactly the contiguous range that
\* subsplit2range_ records for that side; the ranges are pairwise disjoint
\* and together cover R .. n-1.
C3_IndexerBijection ==
  Constructed =>
    LET n == Cardinality(DOMAIN pcsp_indexer_)
        R == Len(rootsplits_)
    IN /\ PCSPIndexValues = 0 .. (n - 1)
       /\ \A i \in 1 .. R : pcsp_indexer_[RootSubsplit(rootsplits_[i])] = i - 1
       /\ \A id \in NonLeafIds : \A rotated \in BOOLEAN :
            LET node == NodeAt(dag_nodes_, id)
                children == SideChildren(node, rotated)
                side == SideSubsplit(node, rotated)
            IN Len(children) > 0 =>
                 /\ side \in DOMAIN subsplit2range_
                 /\ subsplit2range_[side][2] - subsplit2range_[side][1] = Len(children)
                 /\ \A k \in 1 .. Len(children) :
                      GetPCSPIndex(id, children[k], rotated)
                        = subsplit2range_[side][1] + k - 1
       /\ \A s1, s2 \in DOMAIN subsplit2range_ :
            s1 # s2 => RangeSet(subsplit2range_[s1]) \cap RangeSet(subsplit2range_[s2]) = {}
       /\ UNION { RangeSet(subsplit2range_[s]) : s \in DOMAIN subsplit2range_ }
            = R .. (n - 1)

\* C3 witness: an indexed DAG with several ranges, one of a parent side with
\* two children.
C3_Witness ==
  /\ Constructed
  /\ Cardinality(DOMAIN subsplit2range_) >= 2
  /\ \E s \in DOMAIN subsplit2range_ : subsplit2range_[s][2] - subsplit2range_[s][1] >= 2

LeafwardNeighbors(id) ==
  SeqToSet(NodeAt(dag_nodes_, id).leafward_sorted)
  \cup SeqToSet(NodeAt(dag_nodes_, id).leafward_rotated)
RootwardNeighbors(id) ==
  SeqToSet(NodeAt(dag_nodes_, id).rootward_sorted)
  \cup SeqToSet(NodeAt(dag_nodes_, id).rootward_rotated)

RECURSIVE LeafwardDescendants(_)
LeafwardDescendants(id) ==
  LeafwardNeighbors(id) \cup UNION { LeafwardDescendants(c) : c \in LeafwardNeighbors(id) }
RECURSIVE RootwardAncestors(_)
RootwardAncestors(id) ==
  RootwardNeighbors(id) \cup UNION { RootwardAncestors(c) : c \in RootwardNeighbors(id) }

\* The one position of x in s (0 when x does not occur exactly once).
PositionIn(s, x) ==
  IF Cardinality(PositionsOf(s, x)) = 1 THEN CHOOSE k \in PositionsOf(s, x) : TRUE ELSE 0

\* C4: rootward_order_ holds every non-leaf node exactly once, and every node
\* in it comes after all of its leafward descendants.
C4_RootwardOrder ==
  Constructed =>
    /\ \A id \in NonLeafIds : Cardinality(PositionsOf(rootward_order_, id)) = 1
    /\ \A id \in NonLeafIds : \A d \in LeafwardDescendants(id) :
         /\ PositionIn(rootward_order_, d) > 0
         /\ PositionIn(rootward_order_, d) < PositionIn(rootward_order_, id)

\* C4 witness: an order over a DAG in which some non-leaf node has two parents.
C4_Witness ==
  /\ Constructed
  /\ Len(rootward_order_) > 0
  /\ \E id \in NonLeafIds : Cardinality(RootwardNeighbors(id)) >= 2

\* C5: leafward_order_ holds every non-leaf node exactly once, and every node
\* in it comes after all of its rootward ancestors.
C5_LeafwardOrder ==
  Constructed =>
    /\ \A id \in NonLeafIds : Cardinality(PositionsOf(leafward_order_, id)) = 1
    /\ \A id \in 0 .. (Len(dag_nodes_) - 1) : \A a \in RootwardAncestors(id) :
         /\ PositionIn(leafward_order_, a) > 0
         /\ PositionIn(leafward_order_, id) > 0
         /\ PositionIn(leafward_order_, a) < PositionIn(leafward_order_, id)

\* C5 witness: an order over a DAG with two rootsplits in which some non-leaf
\* node has two parents.
C5_Witness ==
  /\ Constructed
  /\ Len(leafward_order_) > 0
  /\ Len(rootsplits_) >= 2
  /\ \E id \in NonLeafIds : Cardinality(RootwardNeighbors(id)) >= 2

----------------------------------------------------------------------------
\* Properties of the streams.

StreamIndices == UNION { GPCSPIndices(operations[k]) : k \in 1 .. Len(operations) }

OpPositions(name) == { k \in 1 .. Len(operations) : operations[k].op = name }
RootUpdatePositions ==
  { k \in 1 .. Len(operations) :
      operations[k] = UpdateSBNProbabilities(0, Len(rootsplits_)) }
SBNStream == pending /\ phase = "SBNParameterOptimization"

\* C8 as stated: UpdateSBNProbabilities(0, R) comes after every per-parent
\* Likelihood and UpdateSBNProbabilities op, and the MarginalLikelihood ops
\* are the terminal step after it.
C8_MarginalsAfterRootUpdate ==
  SBNStream =>
    \E u \in RootUpdatePositions :
      /\ \A k \in OpPositions("Likelihood")
                   \cup (OpPositions("UpdateSBNProbabilities") \ {u}) : k < u
      /\ OpPositions("MarginalLikelihood") = (u + 1) .. Len(operations)

\* C8: UpdateSBNProbabilities(0, R) is the last op of the stream, after every
\* per-parent Likelihood and UpdateSBNProbabilities op and after the
\* MarginalLikelihood ops; there is one MarginalLikelihood per rootsplit, in
\* rootsplit order, each right after the Multiply that ends the schedule of
\* its rootsplit node.
C8_RootUpdateLast ==
  SBNStream =>
    LET R == Len(rootsplits_)
        marginals == OpPositions("MarginalLikelihood")
    IN /\ RootUpdatePositions = {Len(operations)}
       /\ Cardinality(marginals) = R
       /\ \A i \in 1 .. R :
            \E k \in marginals :
              /\ operations[k] = MarginalLikelihood(PLV("R_HAT", RootId(i)), i - 1,
                                                    PLV("P", RootId(i)))
              /\ k > 1
              /\ operations[k - 1] = Multiply(PLV("P", RootId(i)),
                                              PLV("P_HAT", RootId(i)),
                                              PLV("P_HAT_TILDE", RootId(i)))
              /\ \A j \in 1 .. R : \A kj \in marginals :
                   (j < i /\ operations[kj].rootsplit_ = j - 1) => kj < k

\* C8 witness: an SBN stream for two rootsplits that also has per-parent ops.
C8_Witness ==
  /\ SBNStream
  /\ Len(rootsplits_) >= 2
  /\ OpPositions("Likelihood") # {}
  /\ Cardinality(OpPositions("MarginalLikelihood")) = 2
  /\ operations[Len(operations)] = UpdateSBNProbabilities(0, 2)

PLVTypeOf(slot) == PLVTypes[(slot \div Len(dag_nodes_)) + 1]
PLVNodeOf(slot) == slot % Len(dag_nodes_)
PLVWrittenBefore(k) == UNION { PLVWrites(operations[j]) : j \in 1 .. (k - 1) }

C11_Step ==
  (pc = "ready" /\ pc' = "ready")
  => /\ dagVars' = dagVars
     /\ (~pending /\ pending') => operations' = StreamOf(phase')

C11_StreamIsFunctionOfDAG == [][C11_Step]_vars

\* C11 witness: after an earlier stream was emitted and processed, a phase
\* that looks up the indexer with operator[] has returned its stream.
C11_Witness ==
  /\ pending /\ processed >= 1
  /\ phase = "LeafwardPass"
  /\ PCSPLookups(phase) # {}
  /\ operations = LeafwardPass

----------------------------------------------------------------------------
\* Properties of the engine's parameter vectors.

SumsToOne(q, lo, hi) == RSum(q, lo, hi) = RInt(1)
PCSPRanges == { subsplit2range_[s] : s \in DOMAIN subsplit2range_ }
SBNStreamExecuted == ~pending /\ phase = "SBNParameterOptimization"

\* C7 as stated: after the engine has executed the SBNParameterOptimization
\* stream, q sums to 1 over the rootsplit block and over every parent range,
\* single-child ranges included.
C7_AllRangesSumToOne ==
  SBNStreamExecuted =>
    /\ SumsToOne(q_, 0, Len(rootsplits_))
    /\ \A r \in PCSPRanges : SumsToOne(q_, r[1], r[2])

C7_Step ==
  (/\ SBNStream
   /\ \A i \in DOMAIN q_ : RPos(q_[i])
   /\ ~pending')
  => /\ SumsToOne(q_', 0, Len(rootsplits_))
     /\ \A r \in PCSPRanges :
          IF r[2] - r[1] > 1 THEN SumsToOne(q_', r[1], r[2])
          ELSE q_'[r[1]] = q_[r[1]]

\* C7: when the engine executes the SBNParameterOptimization stream from
\* positive q (with positive likelihoods), q afterwards sums to 1 over the
\* rootsplit block and over every parent range with more than one child; the
\* q of a single-child range is not written and keeps the value it had.
C7_MultiChildRangesSumToOne == [][C7_Step]_vars

\* C7 witness: the stream was executed from positive q, a range with two
\* children was renormalised, and a single-child range still holds a value
\* other than 1.
C7_Witness ==
  /\ SBNStreamExecuted
  /\ \A i \in DOMAIN q_ : RPos(q_[i])
  /\ \E r \in PCSPRanges :
       r[2] - r[1] > 1 /\ SumsToOne(q_, r[1], r[2]) /\ q_[r[1]] # q_[r[1] + 1]
  /\ \E r \in PCSPRanges : r[2] - r[1] = 1 /\ q_[r[1]] # RInt(1)

----------------------------------------------------------------------------
\* Properties of the PLV arithmetic.

EngineRuns == pc = "engine" /\ ~thrown

\* stored * threshold^exponent, entry by entry.
Scaled(plv, exponent) ==
  [ en \in PLVEntries |-> RMul(plv[en], RPow(rescaling_threshold_, exponent)) ]

\* C2 as stated: after any sequence of Zero, SetToStationaryDistribution,
\* Multiply, IncrementWithWeightedEvolvedPLV and PrepForMarginalization ops,
\* every slot's value in the engine that never rescales equals
\* stored * threshold^(-c).
C2_TrueValueIsStoredTimesThresholdToMinusC ==
  EngineRuns =>
    \A slot \in PLVSlots :
      true_plvs[slot] = Scaled(plvs_[slot], -plv_rescaling_counts_[slot])

\* C2 with the counter read the way RescalePLV and LogRescalingFor use it:
\* every slot's value in the engine that never rescales equals
\* stored * threshold^c.
C2_TrueValueIsStoredTimesThresholdToC ==
  EngineRuns =>
    \A slot \in PLVSlots :
      true_plvs[slot] = Scaled(plvs_[slot], plv_rescaling_counts_[slot])

C9_Step ==
  (op_count' = op_count + 1 /\ last_op'.op = "Multiply" /\ ~thrown') =>
    LET op == last_op'
        product == [ en \in PLVEntries |->
                       RMul(plvs_[op.src1_][en], plvs_[op.src2_][en]) ]
        sum == WrapCount(plv_rescaling_counts_[op.src1_]
                         + plv_rescaling_counts_[op.src2_])
        min_entry == MinCoeff(plvs_'[op.dest_])
    IN \E divisions \in 0 .. (Pow(2, CounterBits) - 1) :
         /\ plv_rescaling_counts_'[op.dest_] = WrapCount(sum + divisions)
         /\ plvs_'[op.dest_] =
              [ en \in PLVEntries |->
                  RDiv(product[en], RPow(rescaling_threshold_, divisions)) ]
         /\ IF MinCoeff(product) = RInt(0) THEN divisions = 0
            ELSE /\ ~RLess(min_entry, rescaling_threshold_)
                 /\ divisions > 0 =>
                      RLess(RMul(min_entry, rescaling_threshold_), rescaling_threshold_)

C10_Step ==
  (op_count' = op_count + 1 /\ last_op'.op = "OptimizeBranchLength") =>
    LET op == last_op'
        g == op.gpcsp_
        start == branch_lengths_[g]
        start_value == EdgeLikelihood(EngineState, op.rootward_, op.leafward_, g, start)
        end_value == EdgeLikelihood(EngineState, op.rootward_, op.leafward_, g,
                                    branch_lengths_'[g])
    IN /\ branch_lengths_'[g] =
            IF NegLogGreater(op.brent_.likelihood, start_value)
            THEN start ELSE op.brent_.branch_length
       /\ ~NegLogGreater(end_value, start_value)
       /\ UNCHANGED <<plvs_, plv_rescaling_counts_, q_>>

\* C10: OptimizeBranchLength on gpcsp g keeps branch_lengths_[g] when the
\* negative log-likelihood the optimiser returned is strictly greater than the
\* one at the starting value, and stores the optimiser's branch length
\* otherwise; the negative log-likelihood of the edge does not increase.
C10_BranchLengthNeverWorse == [][C10_Step]_vars

\* C10 witness: the optimiser returned a branch length with a strictly worse
\* likelihood and the starting value was kept.
C10_Witness ==
  /\ EngineRuns /\ last_op.op = "OptimizeBranchLength"
  /\ branch_lengths_[last_op.gpcsp_] # last_op.brent_.branch_length
  /\ RLess(last_op.brent_.likelihood,
           EdgeLikelihood(EngineState, last_op.rootward_, last_op.leafward_,
                          last_op.gpcsp_, branch_lengths_[last_op.gpcsp_]))

\* C12 as stated: when the optimiser returns a branch length outside
\* [min_branch_length_, max_branch_length_], OptimizeBranchLength is fatal and
\* the value is not stored in branch_lengths_.
C12_OutOfRangeIsFatal ==
  (pc = "engine" /\ last_op.op = "OptimizeBranchLength"
   /\ OutOfRange(last_op.brent_.branch_length))
  => /\ thrown
     /\ branch_lengths_[last_op.gpcsp_] # last_op.brent_.branch_length

\* The destination counter a Multiply computes, c_src1 + c_src2 plus the
\* rescalings it performs, is outside the range of the counter's type.
MultiplyOverflows(e, op) ==
  LET sum == e.plv_rescaling_counts_[op.src1_] + e.plv_rescaling_counts_[op.src2_]
      product == [ en \in PLVEntries |->
                     RMul(e.plvs_[op.src1_][en], e.plvs_[op.src2_][en]) ]
      min_entry == MinCoeff(product)
      rescalings == IF RPos(min_entry)
                    THEN RescalingCountFor(min_entry, e.rescaling_threshold_) ELSE 0
  IN ~FitsCounter(sum) \/ ~FitsCounter(WrapCount(sum) + rescalings)

C13_Step ==
  (op_count' = op_count + 1 /\ last_op'.op = "Multiply"
   /\ MultiplyOverflows(EngineState, last_op'))
  => /\ thrown'
     /\ plv_rescaling_counts_' = plv_rescaling_counts_

\* C13 as stated: when a Multiply would set the destination counter to a value
\* outside the range of the counter's type, the engine aborts and stores no
\* wrapped counter.
C13_CounterOverflowIsFatal == [][C13_Step]_vars

----------------------------------------------------------------------------
\* Properties of the PLV arena addressing.

\* The PLV slots the ops of the stream name.
StreamSlots ==
  UNION { PLVReads(operations[k]) \cup PLVWrites(operations[k])
            : k \in 1 .. Len(operations) }

\* C14: GetPLVIndex maps (kind, node_id), the six kinds numbered 0..5 and
\* node_id < node_count, to kind * node_count + node_id; the mapping is
\* injective with range exactly [0, 6 * node_count); every slot named by an op
\* of a scheduler stream lies in that range; any other kind fails.
C14_PLVIndexLayout ==
  /\ Constructed =>
       LET n == NodeCount
           pairs == (1 .. Len(PLVTypes)) \X (0 .. (n - 1))
           index == [ pr \in pairs |-> GetPLVIndex(PLVTypes[pr[1]], n, pr[2]) ]
       IN /\ Len(PLVTypes) = plv_count_per_node_
          /\ \A pr \in pairs : index[pr] = (pr[1] - 1) * n + pr[2]
          /\ \A pr \in pairs : \A qr \in pairs : index[pr] = index[qr] => pr = qr
          /\ { index[pr] : pr \in pairs } = 0 .. (plv_count_per_node_ * n - 1)
          /\ GetPLVIndex("INVALID", n, 0) = -1
  /\ pending => StreamSlots \subseteq 0 .. (plv_count_per_node_ * NodeCount - 1)

\* C14 witness: a stream names the last slot of the arena and a slot of every
\* one of the six strides.
C14_Witness ==
  /\ pending
  /\ (plv_count_per_node_ * NodeCount - 1) \in StreamSlots
  /\ \A k \in 0 .. (plv_count_per_node_ - 1) :
       \E slot \in StreamSlots : k * NodeCount <= slot /\ slot < (k + 1) * NodeCount

----------------------------------------------------------------------------
\* Properties of the engine after construction.

EngineConstructed == pc = "engine" /\ op_count = 0

\* C15: after GPEngine construction, for every taxon t and site pattern j the
\* column j of tip slot t is all ones when the symbol is the gap and holds 1 in
\* row k and 0 elsewhere when the symbol is the nucleotide k; every slot that
\* is not a tip slot is all zeros and every rescaling counter is 0.
C15_TipsFromSitePatterns ==
  EngineConstructed =>
    /\ \A t \in 0 .. (EngineTaxonCount - 1) : \A j \in 1 .. PatternCount :
         LET symbol == site_pattern_[t + 1][j]
         IN /\ symbol = BaseCount =>
                 \A row \in 1 .. BaseCount : plvs_[t][<<row, j>>] = RInt(1)
            /\ symbol \in 0 .. (BaseCount - 1) =>
                 \A row \in 1 .. BaseCount :
                   plvs_[t][<<row, j>>] = IF row - 1 = symbol THEN RInt(1) ELSE RInt(0)
    /\ \A slot \in PLVSlots : slot >= EngineTaxonCount => plvs_[slot] = ZeroPLV
    /\ \A slot \in PLVSlots : plv_rescaling_counts_[slot] = 0

\* C15 witness: an engine constructed over a site pattern with a gap.
C15_Witness ==
  /\ EngineConstructed
  /\ \E t \in 0 .. (EngineTaxonCount - 1) : \E j \in 1 .. PatternCount :
       /\ site_pattern_[t + 1][j] = BaseCount
       /\ \A row \in 1 .. BaseCount : plvs_[t][<<row, j>>] = RInt(1)

----------------------------------------------------------------------------
\* Properties of SitePattern::Compress.

Compressed == pc = "SitePattern" /\ ~thrown

\* The k-th stored pattern: the k-th entry of every taxon's compressed sequence.
StoredPattern(k) == [ taxon_number \in 1 .. SequenceCount |-> patterns_[taxon_number][k] ]

\* The sites of the alignment whose column, as symbols, is the given pattern.
SitesHaving(pattern) ==
  { i \in 1 .. AlignmentLength(alignment_) : PatternAt(alignment_, i) = pattern }

\* C16: after Compress every taxon's compressed sequence is as long as the
\* weights, the stored patterns are pairwise distinct, they are exactly the
\* distinct columns of the alignment (a column being the symbols of one site),
\* the k-th weight is the number of sites having the k-th stored pattern as
\* their column, and the weights sum to the alignment length.
C16_CompressCountsColumns ==
  Compressed =>
    LET n == Len(weights_)
    IN /\ \A taxon_number \in 1 .. SequenceCount : Len(patterns_[taxon_number]) = n
       /\ \A j, k \in 1 .. n : j # k => StoredPattern(j) # StoredPattern(k)
       /\ { StoredPattern(k) : k \in 1 .. n }
            = { PatternAt(alignment_, i) : i \in 1 .. AlignmentLength(alignment_) }
       /\ \A k \in 1 .. n : weights_[k] = Cardinality(SitesHaving(StoredPattern(k)))
       /\ SumOver(weights_, 1 .. n) = AlignmentLength(alignment_)

\* Compress has merged two sites that differ only in case into one pattern and
\* kept another site apart.
C16_Witness ==
  /\ Compressed
  /\ Len(weights_) = 2
  /\ \E k \in 1 .. 2 : weights_[k] = 2
  /\ AlignmentLength(alignment_) = 3
  /\ \E i, j \in 1 .. 3 :
       /\ PatternAt(alignment_, i) = PatternAt(alignment_, j)
       /\ \E taxon_number \in 1 .. SequenceCount :
            alignment_[taxon_number][i] # alignment_[taxon_number][j]

----------------------------------------------------------------------------
\* Properties of the SBNInstance.

Trained == pc = "TrainSimpleAverage" /\ ~failed /\ DOMAIN topology_counter_ # {}

\* The topology-count-weighted number of occurrences of an indexer key (a
\* rootsplit or a PCSS) in the counted trees.
WeightedOccurrences(key) ==
  SumOver([ t \in DOMAIN topology_counter_ |->
              IF key = TopologyRootsplit(t) \/ key \in TopologyPCSSs(t)
              THEN topology_counter_[t] ELSE 0 ],
          DOMAIN topology_counter_)

\* The keys that share a block with key: the rootsplits, or the PCSSs with the
\* same parent.
BlockOf(key) ==
  { other \in DOMAIN indexer_ :
      /\ Len(other) = Len(key)
      /\ Len(key) = 3 => (other[1] = key[1] /\ other[2] = key[2]) }

\* C17: after TrainSimpleAverage on counted trees, the parameter of every
\* rootsplit and PCSS is its count-weighted number of occurrences divided by
\* the total over its block, and the rootsplit block and every parent range
\* sum to 1.
C17_SimpleAverageNormalizesCounts ==
  Trained =>
    /\ \A key \in DOMAIN indexer_ :
         sbn_parameters_[indexer_[key]] =
           Rat(WeightedOccurrences(key),
               SumOver([ other \in BlockOf(key) |-> WeightedOccurrences(other) ],
                       BlockOf(key)))
    /\ RSum(sbn_parameters_, 0, Len(rootsplits_)) = RInt(1)
    /\ \A parent \in DOMAIN parent_to_range_ :
         RSum(sbn_parameters_, parent_to_range_[parent][1], parent_to_range_[parent][2])
           = RInt(1)

\* Two topologies with different counts were averaged: some parameter is 1/3.
C17_Witness ==
  /\ Trained
  /\ \E t1, t2 \in DOMAIN topology_counter_ : topology_counter_[t1] # topology_counter_[t2]
  /\ \E i \in DOMAIN sbn_parameters_ : sbn_parameters_[i] = <<1, 3>>

\* The last operation on the instance was ProcessLoadedTrees.
Processed == pc = "ProcessLoadedTrees"

\* C18: after ProcessLoadedTrees the indexer, the rootsplits and the
\* parent-range map are those a fresh instance builds from the collection that
\* is loaded now, whatever was loaded and processed before.
C18_ProcessLoadedTreesRebuilds ==
  Processed =>
    LET fresh == ProcessTreesResult(DOMAIN tree_collection_, hash_order)
    IN /\ ~failed
       /\ indexer_ = fresh.indexer_
       /\ rootsplits_ = fresh.rootsplits_
       /\ parent_to_range_ = fresh.parent_to_range_
       /\ topology_counter_ = tree_collection_

\* The second file was processed on top of the maps of the first, which held
\* keys the second collection does not have.
C18_Witness ==
  /\ Processed /\ ~failed
  /\ load_count = 2
  /\ stale_on_entry
  /\ parent_to_range_ # <<>>

----------------------------------------------------------------------------
\* Node ids after GPDAG::BuildNodes.

\* C19: the fake subsplits have the ids 0 .. taxon_count_ - 1, and every
\* rootsplit node has an id greater than the id of every node that is not a
\* rootsplit node.
C19_RootsplitsTakeLastIds ==
  Constructed =>
    /\ \A i \in 0 .. (taxon_count_ - 1) :
         /\ FakeSubsplit(i) \in DOMAIN subsplit_to_index_
         /\ subsplit_to_index_[FakeSubsplit(i)] = i
         /\ NodeAt(dag_nodes_, i).bitset = FakeSubsplit(i)
    /\ \A r \in RootIds : \A id \in (0 .. (Len(dag_nodes_) - 1)) \ RootIds : id < r

----------------------------------------------------------------------------
\* The PLVs the branch-length optimisation reads.

\* The next op of the first branch-length optimisation stream is an
\* OptimizeBranchLength.
AboutToOptimize ==
  /\ pc = "ready" /\ pending /\ phase = "BranchLengthOptimization"
  /\ plvs_ # <<>> /\ op_count < Len(operations)
  /\ operations[op_count + 1].op = "OptimizeBranchLength"

\* What a full rootward pass followed by a full leafward pass produces with the
\* current branch lengths and q.
FreshPLVs == RunOperations(InitializeDAGPLVs(site_pattern_), EngineState, FullPasses, 1)

\* C20: when an OptimizeBranchLength op executes, the parent PLV and the child
\* PLV it reads hold what a full rootward and leafward pass with the current
\* branch lengths would produce.
C20_OptimizeReadsCurrentPLVs ==
  AboutToOptimize =>
    LET op == operations[op_count + 1]
    IN /\ plvs_[op.rootward_] = FreshPLVs[op.rootward_]
       /\ plvs_[op.leafward_] = FreshPLVs[op.leafward_]

----------------------------------------------------------------------------
\* The BranchLengthOptimization stream.

BLStream == pending /\ phase = "BranchLengthOptimization"

\* The edges of the DAG as <<parent id, child id, rotated>>.
DAGEdges ==
  { e \in AllNodeIds \X AllNodeIds \X BOOLEAN :
      e[2] \in SeqToSet(SideChildren(NodeAt(dag_nodes_, e[1]), e[3])) }

PHatOf(rotated) == IF rotated THEN "P_HAT_TILDE" ELSE "P_HAT"
RVectorOf(rotated) == IF rotated THEN "R_TILDE" ELSE "R"

\* The positions of the OptimizeBranchLength op of the edge e.
EdgeOptimizePositions(e) ==
  { k \in OpPositions("OptimizeBranchLength") :
      operations[k] = OptimizeBranchLength(PLV("P", e[2]), PLV(RVectorOf(e[3]), e[1]),
                                           GetPCSPIndex(e[1], e[2], e[3])) }

\* The positions of the ops of node n: those that write a PLV of n and the
\* OptimizeBranchLength ops of the edges below n.
NodeOpPositions(n) ==
  { k \in 1 .. Len(operations) :
      LET op == operations[k]
      IN \/ /\ op.op \in {"Zero", "SetToStationaryDistribution",
                          "WeightedSumAccumulate", "Multiply"}
            /\ PLVNodeOf(op.dest_) = n
         \/ /\ op.op = "OptimizeBranchLength"
            /\ PLVNodeOf(op.rootward_) = n }

LastPosition(S) == CHOOSE k \in S : \A j \in S : j <= k

\* C21: the BranchLengthOptimization stream has exactly one
\* OptimizeBranchLength op for every DAG edge (parent, child, side), edges
\* into leaves included, and none carries a rootsplit index; each is
\* immediately followed by the accumulate that adds the child's P along the
\* same edge into the parent's p_hat of that side; that p_hat is zeroed by an
\* op that precedes every accumulate into it; and the last op of every
\* non-leaf node n is Multiply P(n) = P_HAT(n) * P_HAT_TILDE(n).
C21_OneOptimizePerEdge ==
  BLStream =>
    /\ Cardinality(OpPositions("OptimizeBranchLength")) = Cardinality(DAGEdges)
    /\ \A k \in OpPositions("OptimizeBranchLength") :
         operations[k].gpcsp_ >= Len(rootsplits_)
    /\ \A e \in DAGEdges :
         LET dest == PLV(PHatOf(e[3]), e[1])
         IN /\ Cardinality(EdgeOptimizePositions(e)) = 1
            /\ \A k \in EdgeOptimizePositions(e) :
                 /\ k < Len(operations)
                 /\ operations[k + 1] =
                      WeightedSumAccumulate(dest, operations[k].gpcsp_, PLV("P", e[2]))
            /\ \E z \in OpPositions("Zero") :
                 /\ operations[z].dest_ = dest
                 /\ \A j \in OpPositions("WeightedSumAccumulate") :
                      operations[j].dest_ = dest => z < j
    /\ \A n \in NonLeafIds :
         /\ NodeOpPositions(n) # {}
         /\ operations[LastPosition(NodeOpPositions(n))] =
              Multiply(PLV("P", n), PLV("P_HAT", n), PLV("P_HAT_TILDE", n))

\* C21 witness: a stream for two rootsplits over a DAG in which a non-leaf
\* node has two parents, with the op of an edge into a leaf and the op of an
\* edge whose child was visited earlier.
C21_Witness ==
  /\ BLStream
  /\ Len(rootsplits_) >= 2
  /\ \E id \in NonLeafIds : Cardinality(RootwardNeighbors(id)) >= 2
  /\ \E e \in DAGEdges : IsLeaf(NodeAt(dag_nodes_, e[2])) /\ EdgeOptimizePositions(e) # {}
  /\ \E e \in DAGEdges :
       /\ ~IsLeaf(NodeAt(dag_nodes_, e[2]))
       /\ \E k \in EdgeOptimizePositions(e) :
            /\ k > 1
            /\ operations[k - 1] # Multiply(PLV("P", e[2]), PLV("P_HAT", e[2]),
                                            PLV("P_HAT_TILDE", e[2]))

----------------------------------------------------------------------------
\* The r-vectors the streams read.

\* The r-vector operand of an op that uses an r-vector of the parent of an
\* edge.
RVectorOperand(op) ==
  CASE op.op = "WeightedSumAccumulate" -> op.src_
    [] op.op = "Likelihood" -> op.parent_
    [] op.op = "OptimizeBranchLength" -> op.rootward_

\* The positions of the ops that use an r-vector of the parent for the edge e:
\* the accumulate into R_HAT of the child, the Likelihood op and the
\* OptimizeBranchLength op that carry the index of the edge.
RVectorUsePositions(e) ==
  LET pcsp_idx == GetPCSPIndex(e[1], e[2], e[3])
  IN { k \in 1 .. Len(operations) :
         LET op == operations[k]
         IN \/ /\ op.op = "WeightedSumAccumulate"
               /\ op.dest_ = PLV("R_HAT", e[2])
               /\ op.gpcsp_ = pcsp_idx
            \/ op.op = "Likelihood" /\ op.dest_ = pcsp_idx
            \/ op.op = "OptimizeBranchLength" /\ op.gpcsp_ = pcsp_idx }

\* C22: in every stream, every op that uses an r-vector of the parent t for a
\* DAG edge (t, n, side) reads R(t) for a sorted edge and R_TILDE(t) for a
\* rotated edge, and every Multiply that writes an r-vector computes
\* R = R_HAT * P_HAT_TILDE and R_TILDE = R_HAT * P_HAT, so the r-vector read
\* for an edge is R_HAT(t) times the p_hat of the opposite side.
C22_EdgesReadOppositeSideRVector ==
  pending =>
    /\ \A e \in DAGEdges : \A k \in RVectorUsePositions(e) :
         RVectorOperand(operations[k]) = PLV(RVectorOf(e[3]), e[1])
    /\ \A k \in OpPositions("Multiply") :
         LET op == operations[k]
             t == PLVNodeOf(op.dest_)
         IN /\ PLVTypeOf(op.dest_) = "R" =>
                 <<op.src1_, op.src2_>> = <<PLV("R_HAT", t), PLV("P_HAT_TILDE", t)>>
            /\ PLVTypeOf(op.dest_) = "R_TILDE" =>
                 <<op.src1_, op.src2_>> = <<PLV("R_HAT", t), PLV("P_HAT", t)>>

\* C22 witness: a leafward pass that writes both r-vectors of a node and then
\* reads them for a sorted and for a rotated edge.
C22_Witness ==
  /\ pending /\ phase = "LeafwardPass"
  /\ \E e1 \in DAGEdges : \E e2 \in DAGEdges :
       /\ e1[1] = e2[1] /\ ~e1[3] /\ e2[3]
       /\ \E k1 \in RVectorUsePositions(e1) : \E k2 \in RVectorUsePositions(e2) :
            \E m1 \in OpPositions("Multiply") : \E m2 \in OpPositions("Multiply") :
              /\ operations[m1].dest_ = PLV("R", e1[1]) /\ m1 < k1
              /\ operations[m2].dest_ = PLV("R_TILDE", e1[1]) /\ m2 < k2

----------------------------------------------------------------------------
\* The RootwardPass stream.

\* The ops RootwardPass emits for one non-leaf node: the accumulates of the
\* sorted edges, those of the rotated edges, then the Multiply that writes P.
RootwardNodeOperations(n) ==
  LET node == NodeAt(dag_nodes_, n)
  IN [ k \in 1 .. Len(node.leafward_sorted) |->
         WeightedSumAccumulate(PLV("P_HAT", n),
                               GetPCSPIndex(n, node.leafward_sorted[k], FALSE),
                               PLV("P", node.leafward_sorted[k])) ]
     \o [ k \in 1 .. Len(node.leafward_rotated) |->
            WeightedSumAccumulate(PLV("P_HAT_TILDE", n),
                                  GetPCSPIndex(n, node.leafward_rotated[k], TRUE),
                                  PLV("P", node.leafward_rotated[k])) ]
     \o << Multiply(PLV("P", n), PLV("P_HAT", n), PLV("P_HAT_TILDE", n)) >>

RECURSIVE ConcatOver(_, _)
\* The concatenation of the op blocks of the non-leaf nodes of order, from
\* position k on.
ConcatOver(order, k) ==
  IF k > Len(order) THEN <<>>
  ELSE (IF IsLeaf(NodeAt(dag_nodes_, order[k])) THEN <<>>
        ELSE RootwardNodeOperations(order[k]))
       \o ConcatOver(order, k + 1)

\* C23: the RootwardPass stream is, for each non-leaf node n in rootward
\* order, one accumulate per leafward edge of n (sorted edges into P_HAT(n),
\* then rotated edges into P_HAT_TILDE(n), each with the gpcsp index of the
\* edge and the child's P slot as source) followed by one Multiply
\* P(n) = P_HAT(n) * P_HAT_TILDE(n); no op belongs to a leaf; and for every
\* non-leaf child c the Multiply that writes P(c) precedes every accumulate
\* that reads P(c).
C23_RootwardPassStructure ==
  (pending /\ phase = "RootwardPass") =>
    /\ operations = ConcatOver(rootward_order_, 1)
    /\ \A k \in 1 .. Len(operations) :
         /\ ~IsLeaf(NodeAt(dag_nodes_, PLVNodeOf(operations[k].dest_)))
         /\ operations[k].op \in {"WeightedSumAccumulate", "Multiply"}
    /\ \A n \in NonLeafIds :
         Cardinality({ k \in OpPositions("Multiply") :
                         operations[k].dest_ = PLV("P", n) }) = 1
    /\ \A e \in DAGEdges :
         /\ Cardinality({ k \in OpPositions("WeightedSumAccumulate") :
                            operations[k] =
                              WeightedSumAccumulate(PLV(PHatOf(e[3]), e[1]),
                                                    GetPCSPIndex(e[1], e[2], e[3]),
                                                    PLV("P", e[2])) }) = 1
         /\ ~IsLeaf(NodeAt(dag_nodes_, e[2])) =>
              \A k \in OpPositions("WeightedSumAccumulate") :
                operations[k].src_ = PLV("P", e[2]) =>
                  \E m \in OpPositions("Multiply") :
                    operations[m].dest_ = PLV("P", e[2]) /\ m < k
    /\ Cardinality(OpPositions("WeightedSumAccumulate")) = Cardinality(DAGEdges)

\* C23 witness: a rootward pass over a DAG with two rootsplits in which an
\* accumulate reads the P of a non-leaf child that has two parents.
C23_Witness ==
  /\ pending /\ phase = "RootwardPass"
  /\ Len(rootsplits_) >= 2
  /\ \E e \in DAGEdges :
       /\ ~IsLeaf(NodeAt(dag_nodes_, e[2]))
       /\ Cardinality(RootwardNeighbors(e[2])) >= 2
       /\ \E k \in OpPositions("WeightedSumAccumulate") :
            operations[k].src_ = PLV("P", e[2])

----------------------------------------------------------------------------
\* PrepForMarginalization and the increments that follow it.

\* A PrepForMarginalization has been executed; operations[1] is that op.
Prepared == pc = "engine" /\ operations # <<>>

MinCount(slots) ==
  CHOOSE c \in { plv_rescaling_counts_[s] : s \in slots } :
    \A s \in slots : c <= plv_rescaling_counts_[s]

\* C24: after PrepForMarginalization(dst, srcs) with non-empty srcs that do
\* not contain dst, dst is all zero and its rescaling counter is the minimum
\* of the counters of srcs; every following IncrementWithWeightedEvolvedPLV
\* from a slot of srcs into dst passes the engine's check that the counter of
\* dst is not above the counter of the source, and leaves the counter of dst
\* what it was; PrepForMarginalization with empty srcs fails.
C24_PrepThenIncrementsPass ==
  Prepared =>
    LET dst == operations[1].dest_
        srcs == SeqToSet(operations[1].src_vector_)
    IN /\ srcs = {} => thrown
       /\ (srcs # {} /\ dst \notin srcs) =>
            /\ ~thrown
            /\ plv_rescaling_counts_[dst] = MinCount(srcs)
            /\ \A s \in srcs : plv_rescaling_counts_[dst] <= plv_rescaling_counts_[s]
            /\ Len(operations) = 1 => plvs_[dst] = ZeroPLV

\* C24 witness: the sources have different counters, and an increment from
\* each of them into the destination has been executed.
C24_Witness ==
  /\ Prepared /\ ~thrown
  /\ Len(operations) = 3
  /\ operations[1].dest_ \notin SeqToSet(operations[1].src_vector_)
  /\ operations[2].src_ # operations[3].src_
  /\ plv_rescaling_counts_[operations[2].src_] # plv_rescaling_counts_[operations[3].src_]
  /\ plvs_[operations[1].dest_] # ZeroPLV

----------------------------------------------------------------------------
\* The rescaling counters under the scheduler's streams.

Accumulators == {"P_HAT", "P_HAT_TILDE", "R_HAT"}

CountingEngine == pc = "ready" /\ plv_rescaling_counts_ # <<>>

\* C25: while a freshly constructed engine processes scheduler-emitted
\* streams, one after the other, the rescaling counters of all P_HAT,
\* P_HAT_TILDE and R_HAT slots stay 0, every Multiply of a stream targets a P,
\* R or R_TILDE slot, and neither the Assert of
\* IncrementWithWeightedEvolvedPLV (the counter of the destination is not
\* above the counter of the source) nor the Assert of
\* IncrementMarginalLikelihood (the counter of the stationary slot is 0)
\* fails.
C25_AccumulatorCountersStayZero ==
  CountingEngine =>
    /\ ~thrown
    /\ \A n \in AllNodeIds : \A plv_type \in Accumulators :
         plv_rescaling_counts_[PLV(plv_type, n)] = 0
    /\ \A k \in OpPositions("Multiply") :
         PLVTypeOf(operations[k].dest_) \in {"P", "R", "R_TILDE"}

\* C25 witness: two streams have been processed, the second one holding an
\* accumulate from a slot whose counter is above 0 and an
\* IncrementMarginalLikelihood; P, R and R_TILDE slots have counters above 0.
C25_Witness ==
  /\ CountingEngine /\ processed = 2 /\ ~pending /\ ~thrown
  /\ phase = "SBNParameterOptimization"
  /\ OpPositions("MarginalLikelihood") # {}
  /\ \E k \in OpPositions("WeightedSumAccumulate") :
       /\ plv_rescaling_counts_[operations[k].src_] > 0
       /\ PLVTypeOf(operations[k].src_) = "P"
  /\ \E k \in OpPositions("WeightedSumAccumulate") :
       /\ plv_rescaling_counts_[operations[k].src_] > 0
       /\ PLVTypeOf(operations[k].src_) \in {"R", "R_TILDE"}

----------------------------------------------------------------------------
\* The frame of UpdateSBNProbabilities.

\* The step is the execution of an UpdateSBNProbabilities op of the stream.
ExecutesUpdateSBNProbabilities ==
  /\ pc = "ready" /\ pending
  /\ op_count < Len(operations)
  /\ op_count' = op_count + 1
  /\ operations[op_count + 1].op = "UpdateSBNProbabilities"

C26_Step ==
  ExecutesUpdateSBNProbabilities =>
    LET op == operations[op_count + 1]
    IN /\ log_likelihoods_' = log_likelihoods_
       /\ branch_lengths_' = branch_lengths_
       /\ plvs_' = plvs_
       /\ plv_rescaling_counts_' = plv_rescaling_counts_
       /\ \A i \in DOMAIN q_ : (i < op.start_ \/ i >= op.stop_) => q_'[i] = q_[i]

\* C26: UpdateSBNProbabilities(start, stop) writes only q[start, stop): the
\* log_likelihoods vector, the branch lengths, the PLVs and the rescaling
\* counters are the same after the op as before it, for ranges of any length.
C26_UpdateWritesOnlyQ == [][C26_Step]_vars

----------------------------------------------------------------------------
\* The tips.

\* The slots an op writes into.
Destinations(op) ==
  IF op.op \in {"Zero", "SetToStationaryDistribution", "WeightedSumAccumulate",
                "Multiply"}
  THEN {op.dest_} ELSE {}

\* C27: no op of any stream of any scheduler phase has the P slot of a leaf
\* node (a slot index below taxon_count_) as its destination, so processing
\* scheduler streams never overwrites the tip partial likelihoods that the
\* engine's constructor wrote.
C27_LeafPNeverWritten ==
  pending =>
    \A k \in 1 .. Len(operations) : \A dest \in Destinations(operations[k]) :
      /\ dest >= taxon_count_
      /\ ~(PLVTypeOf(dest) = "P" /\ IsLeaf(NodeAt(dag_nodes_, PLVNodeOf(dest))))

\* C27 witness: a branch-length stream that visits the leaves, writes their
\* R_HAT and reads their P.
C27_Witness ==
  /\ BLStream
  /\ \E k \in OpPositions("Zero") :
       /\ PLVTypeOf(operations[k].dest_) = "R_HAT"
       /\ IsLeaf(NodeAt(dag_nodes_, PLVNodeOf(operations[k].dest_)))
  /\ \E k \in OpPositions("OptimizeBranchLength") : operations[k].leafward_ < taxon_count_
  /\ \E k \in OpPositions("Multiply") : PLVTypeOf(operations[k].dest_) = "P"

----------------------------------------------------------------------------
\* Properties of SubsplitDAGStorage.

\* Every entry of every neighbour map names a stored line of the map's clade
\* that joins the vertex and the neighbour in the map's direction.
NeighborsAgree(vertices, lines) ==
  \A v \in 1 .. Len(vertices) : \A k \in 1 .. Len(NeighborKeys) :
    \A x \in vertices[v].neighbors_[NeighborKeys[k]] :
      /\ x[2] < Len(lines)
      /\ lines[x[2] + 1].id_ = x[2]
      /\ lines[x[2] + 1].clade_ = NeighborKeys[k][2]
      /\ IF NeighborKeys[k][1] = "Leafward"
         THEN lines[x[2] + 1].parent_ = v - 1 /\ lines[x[2] + 1].child_ = x[1]
         ELSE lines[x[2] + 1].child_ = v - 1 /\ lines[x[2] + 1].parent_ = x[1]

NeighborsAgreeWithLines == NeighborsAgree(vertices_, lines_)

\* C29: a line that GetLine(parent, child) returns has parent `parent` and
\* child `child`; for every other pair of ids, out-of-range ids and pairs in
\* child-then-parent order included, GetLine returns no line.  Stated for a
\* storage whose neighbour maps agree with its lines.
C29_GetLineJoinsParentToChild ==
  (last_op.op = "GetLine" /\ NeighborsAgreeWithLines /\ last_op.result.has_value)
    => /\ last_op.result.value.parent_ = last_op.parent
       /\ last_op.result.value.child_ = last_op.child

\* The graft as ResetHost finds it: its lines join two different vertices
\* that the host or the graft holds, and the neighbour maps agree with the
\* lines.
GraftWellFormed ==
  /\ \A l \in 1 .. Len(graft_lines_) :
       graft_lines_[l].id_ # NoId =>
         /\ graft_lines_[l].parent_ # graft_lines_[l].child_
         /\ \A end \in { graft_lines_[l].parent_, graft_lines_[l].child_ } :
              /\ end < Len(vertices_) + Len(graft_vertices_)
              /\ (vertices_ \o graft_vertices_)[end + 1].id_ = end
  /\ NeighborsAgree(vertices_ \o graft_vertices_, lines_ \o graft_lines_)

\* The host's vertices have the neighbour maps they had when the graft was made.
HostNeighborsRestored ==
  /\ Len(vertices_) = Len(vertices_at_graft)
  /\ \A v \in 1 .. Len(vertices_) :
       vertices_[v].neighbors_ = vertices_at_graft[v].neighbors_

\* The step ResetHost takes on a well-formed graft.
C28_Step ==
  (pc = "graft" /\ pc' = "reset" /\ GraftWellFormed)
    => /\ HostNeighborsRestored'
       /\ graft_vertices_' = <<>> /\ graft_lines_' = <<>>

\* C28: ResetHost(host) on a graft whose vertices and lines (ids at or above
\* the host's counts) were added and connected with ConnectVertices leaves
\* every host vertex with the four neighbour maps it had before grafting,
\* whatever the endpoints of the graft lines are, and leaves the graft without
\* lines and vertices of its own.
C28_ResetHostRestoresHost == [][C28_Step]_vars

\* Ids of the vertex slots of the host that hold a vertex (ContainsVertex).
ContainedVertices == { v \in 0 .. (Len(vertices_) - 1) : vertices_[v + 1].id_ # NoId }

\* The line ids under which vertex v has neighbor in its map of the key.
NeighborLines(v, direction, clade, neighbor) ==
  { x[2] : x \in { y \in vertices_[v + 1].neighbors_[<<direction, clade>>] :
                     y[1] = neighbor } }

\* The sequence as a set.
Members(seq) == { seq[k] : k \in 1 .. Len(seq) }

AfterConnectAllVertices ==
  pc = "storage" /\ last_op.op = "ConnectAllVertices" /\ ~thrown

\* C30: adjacency is symmetric per clade side.  In a constructed GPDAG c is in
\* p's leafward list of a side iff p is in c's rootward list of that side.  In
\* a SubsplitDAGStorage after ConnectAllVertices vertex p has c as a Leafward
\* neighbour on clade k with line id l iff c has p as a Rootward neighbour on
\* clade k with line id l, and every such pair is a stored line with id l
\* that joins p to c on clade k.
C30_AdjacencySymmetric ==
  /\ Constructed =>
       \A p \in AllNodeIds, c \in AllNodeIds :
         /\ c \in Members(NodeAt(dag_nodes_, p).leafward_sorted)
              <=> p \in Members(NodeAt(dag_nodes_, c).rootward_sorted)
         /\ c \in Members(NodeAt(dag_nodes_, p).leafward_rotated)
              <=> p \in Members(NodeAt(dag_nodes_, c).rootward_rotated)
  /\ AfterConnectAllVertices =>
       \A p \in ContainedVertices, c \in ContainedVertices, k \in { "Left", "Right" } :
         /\ NeighborLines(p, "Leafward", k, c) = NeighborLines(c, "Rootward", k, p)
         /\ \A l \in NeighborLines(p, "Leafward", k, c) :
              /\ l < Len(lines_)
              /\ lines_[l + 1] = DAGLineStorage(l, p, c, k)

\* ConnectAllVertices has connected a line that joins two different vertices.
C30_Witness ==
  /\ AfterConnectAllVertices
  /\ \E p \in ContainedVertices, c \in ContainedVertices, k \in { "Left", "Right" } :
       p # c /\ NeighborLines(p, "Leafward", k, c) # {}

====
